---- MODULE Spec2Model ----
(***************************************************************************)
(* fake-commerce-api: the data-access layer.                               *)
(*                                                                         *)
(*   - src/src/db/rawDbFunctions.js : the statement builders, the error    *)
(*     classifier parseSqliteError, sanitizeIdentifier, validateString     *)
(*   - src/src/decoratores.js       : withSimulatedTransaction             *)
(*   - src/unnamed/part_000         : the wrapped resource operations      *)
(*   - src/src/errors.js            : the AppError classes and openDb      *)
(*                                                                         *)
(* A JavaScript string is modelled as the sequence of its pieces: every    *)
(* quote character (single, double, backtick) is a piece of its own, and   *)
(* a run of other                                                          *)
(* characters that the code never splits is one piece.  SQL text is a      *)
(* sequence of fragments: the literal parts of a template string and the   *)
(* values interpolated into its holes.                                     *)
(***************************************************************************)
EXTENDS Integers, Sequences, FiniteSets, TLC

VARIABLES
    committed,  \* the durable contents of the SQLite file
    conns,      \* the connections opened so far: <<[tx, wrote, work]>>
    writer,     \* the connection holding SQLite's write (RESERVED) lock, 0 if none
    pc,         \* per caller: where its withSimulatedTransaction call stands
    req,        \* per caller: the wrapped function and its arguments
    db,         \* per caller: the wrapper's local variable db (0 = undefined)
    loc,        \* per caller: the locals of the unit of work
    err,        \* per caller: the error caught by the wrapper's outer catch
    outcome,    \* per caller: what the finished call returned or threw
    log,        \* per caller: its calls of the driver, in order, and whether each succeeded
    started,    \* the number of calls started so far
    faults,     \* the number of I/O failures the engine has answered with
    bin,        \* builder check: the arguments of the raw builder call
    bout,       \* builder check: what the raw builder call produced
    bsent,      \* builder check: the statements handed to db.all / db.run
    hin,        \* helper check: the argument of the sanitizeIdentifier / parseSqliteError call
    hout        \* helper check: what the helper returned

vars == <<committed, conns, writer, pc, req, db, loc, err, outcome, log,
          started, faults, bin, bout, bsent, hin, hout>>

mainVars == <<committed, conns, writer, pc, req, db, loc, err, outcome, log,
              started, faults>>
buildVars == <<bin, bout, bsent, hin, hout>>

(***************************************************************************)
(* Sequence helpers.                                                       *)
(***************************************************************************)
RECURSIVE Flatten(_)
Flatten(ss) == IF ss = <<>> THEN <<>> ELSE Head(ss) \o Flatten(Tail(ss))

RECURSIVE JoinWith(_, _)
JoinWith(ss, sep) ==
    IF ss = <<>> THEN <<>>
    ELSE IF Len(ss) = 1 THEN Head(ss)
    ELSE Head(ss) \o sep \o JoinWith(Tail(ss), sep)

RECURSIVE Filter1(_, _)
Filter1(s, drop) ==
    IF s = <<>> THEN <<>>
    ELSE IF Head(s) \in drop THEN Filter1(Tail(s), drop)
    ELSE <<Head(s)>> \o Filter1(Tail(s), drop)

(***************************************************************************)
(* errors.js: the error classes.  An error is a record of its class name,  *)
(* message, statusCode (0 = the class has none) and raw (null = <<>>).     *)
(***************************************************************************)
null == <<>>

AppError(name, message, statusCode, raw) ==
    [name |-> name, message |-> message, statusCode |-> statusCode, raw |-> raw]

ClientError(message, raw) == AppError("ClientError", message, 400, raw)

ServerError(message, raw) == AppError("ServerError", message, 500, raw)

NotFoundError(message, raw) == AppError("NotFoundError", message, 404, raw)

\* An error that is no AppError: a built-in (TypeError, ReferenceError) or the
\* Error the sqlite driver rejects with.
PlainError(name, message) ==
    [name |-> name, message |-> message, statusCode |-> 0, raw |-> null]

EngineError(message) == PlainError("Error", message)

IsClientError(e) == e.name = "ClientError"

(***************************************************************************)
(* middlewares/errorHandler.js.  The response is its status and its body.  *)
(***************************************************************************)
\* a handler that answers with the message of whatever error it is given
errorHandlerMessageExposed(e) ==
    [status |-> IF e.statusCode # 0 THEN e.statusCode ELSE 500,
     body |-> [error |-> IF e.message # <<>> THEN e.message
                         ELSE <<"Internal server error">>]]

\* a statusCode of 0 and a message of <<>> are the falsy ones: a missing
\* statusCode and the empty string
errorHandler(e) ==
    LET handled == IF e.name = "TypeError"
                   THEN ServerError(<<"Internal server error">>, e.message)
                   ELSE e
        status == IF handled.statusCode # 0 THEN handled.statusCode ELSE 500
        message == IF handled.message # <<>> THEN handled.message
                   ELSE <<"Internal server error">>
    IN  [status |-> status, body |-> [error |-> message]]

(***************************************************************************)
(* rawDbFunctions.js: sanitizeIdentifier and validateString.               *)
(***************************************************************************)
\* the three characters of the pattern in sanitizeIdentifier; the parser does
\* not take the backtick inside a string, so that character is written out
Backtick == "BACKTICK"

QuoteChars == {"'", "\"", Backtick}

Star == <<"*">>

\* a sanitizer that wraps the name and leaves its quote characters in
sanitizeIdentifierUnstripped(name) ==
    IF name = Star THEN Star ELSE <<"\"">> \o name \o <<"\"">>

\* the name with every quote character removed, wrapped in double quotes;
\* the name "*" is returned as it is
sanitizeIdentifier(name) ==
    IF name = Star THEN Star
    ELSE <<"\"">> \o Filter1(name, QuoteChars) \o <<"\"">>

Whitespace == {" ", "  "}

\* value.trim() is the empty string
IsBlank(value) == \A i \in 1..Len(value) : value[i] \in Whitespace

InvalidTableName == <<"Invalid table name.">>
InvalidColumnName == <<"Invalid column name.">>

\* the error validateString throws, or "ok"; every value modelled is a string
validateString(value, errorMessage) ==
    IF IsBlank(value)
    THEN [ok |-> FALSE, error |-> ClientError(errorMessage, null)]
    ELSE [ok |-> TRUE, error |-> PlainError("none", <<>>)]

(***************************************************************************)
(* rawDbFunctions.js: parseSqliteError.  The pieces of an engine message   *)
(* are its words and the fixed phrases the patterns look for; (\w+) takes  *)
(* one word piece.                                                         *)
(***************************************************************************)
WordPieces == {"users", "email", "products", "purchases", "purchase_items",
               "categories", "name", "price", "id", "total", "bogus"}

IsWord(p) == p \in WordPieces

Min(S) == CHOOSE x \in S : \A y \in S : x <= y

\* the places where msg matches  <key>(\w+)\.(\w+)
Match2(msg, key) ==
    {i \in 1..Len(msg) : /\ i + 3 <= Len(msg)
                         /\ msg[i] = key
                         /\ IsWord(msg[i + 1])
                         /\ msg[i + 2] = "."
                         /\ IsWord(msg[i + 3])}

\* the places where msg matches  <key>(\w+)
Match1(msg, key) ==
    {i \in 1..Len(msg) : /\ i + 1 <= Len(msg)
                         /\ msg[i] = key
                         /\ IsWord(msg[i + 1])}

Includes(msg, key) == \E i \in 1..Len(msg) : msg[i] = key

UniquePhrase == "UNIQUE constraint failed: "
NotNullPhrase == "NOT NULL constraint failed: "
NoColumnPhrase == "no such column: "
DatatypePhrase == "datatype mismatch"
CheckPhrase == "CHECK constraint failed: "
ForeignKeyPhrase == "FOREIGN KEY constraint failed"
NoTablePhrase == "no such table: "

ErrorWithDatabase == <<"Error with database">>

\* a classifier that tests the unknown-table pattern before the others
parseSqliteErrorTableFirst(e) ==
    LET msg == e.message
    IN  IF Match1(msg, NoTablePhrase) # {}
        THEN LET i == Min(Match1(msg, NoTablePhrase))
             IN  ClientError(<<"The table '", msg[i + 1],
                               "' does not exist in the database.">>, msg)
        ELSE IF Match2(msg, UniquePhrase) # {}
        THEN LET i == Min(Match2(msg, UniquePhrase))
             IN  ClientError(<<"The value for column '", msg[i + 3], "' in table '",
                               msg[i + 1], "' already exists and must be unique.">>, msg)
        ELSE IF Match2(msg, NotNullPhrase) # {}
        THEN LET i == Min(Match2(msg, NotNullPhrase))
             IN  ClientError(<<"The column '", msg[i + 3], "' in table '", msg[i + 1],
                               "' is required and cannot be null.">>, msg)
        ELSE IF Match1(msg, NoColumnPhrase) # {}
        THEN LET i == Min(Match1(msg, NoColumnPhrase))
             IN  ClientError(<<"The column '", msg[i + 1],
                               "' does not exist in the table.">>, msg)
        ELSE IF Includes(msg, DatatypePhrase)
        THEN ClientError(<<"Invalid data type for one or more columns. Please check that the types match the table schema.">>, msg)
        ELSE IF Match1(msg, CheckPhrase) # {}
        THEN LET i == Min(Match1(msg, CheckPhrase))
             IN  ClientError(<<"The column '", msg[i + 1],
                               "' does not satisfy the validation constraint.">>, msg)
        ELSE IF Includes(msg, ForeignKeyPhrase)
        THEN ClientError(<<"Foreign key constraint failed: one of the referenced values does not exist in the related table.">>, msg)
        ELSE ClientError(ErrorWithDatabase, msg)

\* a classifier whose fallback is a ServerError without the engine message
parseSqliteErrorServerFallback(e) ==
    LET msg == e.message
    IN  IF Match2(msg, UniquePhrase) # {}
        THEN LET i == Min(Match2(msg, UniquePhrase))
             IN  ClientError(<<"The value for column '", msg[i + 3], "' in table '",
                               msg[i + 1], "' already exists and must be unique.">>, msg)
        ELSE IF Match2(msg, NotNullPhrase) # {}
        THEN LET i == Min(Match2(msg, NotNullPhrase))
             IN  ClientError(<<"The column '", msg[i + 3], "' in table '", msg[i + 1],
                               "' is required and cannot be null.">>, msg)
        ELSE IF Match1(msg, NoColumnPhrase) # {}
        THEN LET i == Min(Match1(msg, NoColumnPhrase))
             IN  ClientError(<<"The column '", msg[i + 1],
                               "' does not exist in the table.">>, msg)
        ELSE IF Includes(msg, DatatypePhrase)
        THEN ClientError(<<"Invalid data type for one or more columns. Please check that the types match the table schema.">>, msg)
        ELSE IF Match1(msg, CheckPhrase) # {}
        THEN LET i == Min(Match1(msg, CheckPhrase))
             IN  ClientError(<<"The column '", msg[i + 1],
                               "' does not satisfy the validation constraint.">>, msg)
        ELSE IF Includes(msg, ForeignKeyPhrase)
        THEN ClientError(<<"Foreign key constraint failed: one of the referenced values does not exist in the related table.">>, msg)
        ELSE IF Match1(msg, NoTablePhrase) # {}
        THEN LET i == Min(Match1(msg, NoTablePhrase))
             IN  ClientError(<<"The table '", msg[i + 1],
                               "' does not exist in the database.">>, msg)
        ELSE ServerError(ErrorWithDatabase, null)

\* msg.match and msg.includes, pattern after pattern; the first that matches
\* decides
parseSqliteError(e) ==
    LET msg == e.message
    IN  IF Match2(msg, UniquePhrase) # {}
        THEN LET i == Min(Match2(msg, UniquePhrase))
             IN  ClientError(<<"The value for column '", msg[i + 3], "' in table '",
                               msg[i + 1], "' already exists and must be unique.">>, msg)
        ELSE IF Match2(msg, NotNullPhrase) # {}
        THEN LET i == Min(Match2(msg, NotNullPhrase))
             IN  ClientError(<<"The column '", msg[i + 3], "' in table '", msg[i + 1],
                               "' is required and cannot be null.">>, msg)
        ELSE IF Match1(msg, NoColumnPhrase) # {}
        THEN LET i == Min(Match1(msg, NoColumnPhrase))
             IN  ClientError(<<"The column '", msg[i + 1],
                               "' does not exist in the table.">>, msg)
        ELSE IF Includes(msg, DatatypePhrase)
        THEN ClientError(<<"Invalid data type for one or more columns. Please check that the types match the table schema.">>, msg)
        ELSE IF Match1(msg, CheckPhrase) # {}
        THEN LET i == Min(Match1(msg, CheckPhrase))
             IN  ClientError(<<"The column '", msg[i + 1],
                               "' does not satisfy the validation constraint.">>, msg)
        ELSE IF Includes(msg, ForeignKeyPhrase)
        THEN ClientError(<<"Foreign key constraint failed: one of the referenced values does not exist in the related table.">>, msg)
        ELSE IF Match1(msg, NoTablePhrase) # {}
        THEN LET i == Min(Match1(msg, NoTablePhrase))
             IN  ClientError(<<"The table '", msg[i + 1],
                               "' does not exist in the database.">>, msg)
        ELSE ClientError(ErrorWithDatabase, msg)

(***************************************************************************)
(* SQL text.  A statement is the sequence of the fragments of its template *)
(* string: kind says what stands there (a literal part of the template, an *)
(* identifier, an operator, a number), raw is the value the caller passed  *)
(* and text is what was written into the SQL.                              *)
(***************************************************************************)
Frag(kind, raw, text) == [kind |-> kind, raw |-> raw, text |-> text]

Lit(s) == Frag("lit", <<s>>, <<s>>)

RECURSIVE DecStr(_)
DecStr(n) ==
    LET digit == <<"0", "1", "2", "3", "4", "5", "6", "7", "8", "9">>
    IN  IF n < 10 THEN <<digit[n + 1]>> ELSE DecStr(n \div 10) \o <<digit[(n % 10) + 1]>>

\* JavaScript values bound as statement parameters
Num(n) == [t |-> "number", n |-> <<n>>]
Arr(ns) == [t |-> "array", n |-> ns]
Undefined == [t |-> "undefined", n |-> <<>>]
\* the number n + d/10 with d in 1..9, which is no integer
Frac(n, d) == [t |-> "number", n |-> <<n, d>>]
\* the string that spells the number n
Str(n) == [t |-> "string", n |-> <<n>>]

NoError == PlainError("none", <<>>)

Threw(e) == [threw |-> TRUE, error |-> e, sql |-> <<>>, values |-> <<>>]
Built(sql, values) == [threw |-> FALSE, error |-> NoError, sql |-> sql, values |-> values]

Null == [t |-> "null", n |-> <<>>]

\* an identifier written into the SQL: raw as passed, text as interpolated
Ident(raw, text) == Frag("ident", raw, text)

\* value.map(() => '?').join(', ')
Placeholders(count) == JoinWith([i \in 1..count |-> <<Lit("?")>>], <<Lit(", ")>>)

(***************************************************************************)
(* rawDbFunctions.js: rawGetData, up to the statement handed to db.all.    *)
(* A filter is [column, operator, value]; limit is a JavaScript value.     *)
(***************************************************************************)
allowedOperators ==
    {<<"=">>, <<"!=">>, <<"<">>, <<"<=">>, <<">">>, <<">=">>, <<"LIKE">>, <<"IN">>}

InvalidOperator(operator) == <<"Invalid operator '">> \o operator \o <<"' in filter.">>

\* a loop that builds the clauses without looking at allowedOperators
RECURSIVE FilterLoopUnchecked(_, _, _)
FilterLoopUnchecked(filters, whereClauses, values) ==
    IF filters = <<>>
    THEN [threw |-> FALSE, error |-> NoError,
          whereClauses |-> whereClauses, values |-> values]
    ELSE FilterLoopUnchecked(Tail(filters),
             Append(whereClauses,
                    <<Ident(Head(filters).column, sanitizeIdentifier(Head(filters).column)),
                      Lit(" "), Frag("op", Head(filters).operator, Head(filters).operator),
                      Lit(" ?")>>),
             Append(values, Head(filters).value))

\* a loop that binds the array of an IN filter as one value
RECURSIVE FilterLoopArrayBoundOnce(_, _, _)
FilterLoopArrayBoundOnce(filters, whereClauses, values) ==
    IF filters = <<>>
    THEN [threw |-> FALSE, error |-> NoError,
          whereClauses |-> whereClauses, values |-> values]
    ELSE LET col == Ident(Head(filters).column, sanitizeIdentifier(Head(filters).column))
             value == Head(filters).value
         IN  IF Head(filters).operator \notin allowedOperators
             THEN [threw |-> TRUE,
                   error |-> ClientError(InvalidOperator(Head(filters).operator), null),
                   whereClauses |-> whereClauses, values |-> values]
             ELSE FilterLoopArrayBoundOnce(Tail(filters),
                      Append(whereClauses,
                             IF Head(filters).operator = <<"IN">> /\ value.t = "array"
                             THEN <<col, Lit(" IN (")>> \o Placeholders(Len(value.n))
                                      \o <<Lit(")")>>
                             ELSE <<col, Lit(" "),
                                    Frag("op", Head(filters).operator,
                                         Head(filters).operator),
                                    Lit(" ?")>>),
                      Append(values, value))

\* the body of  for (const filter of filters)
RECURSIVE FilterLoop(_, _, _)
FilterLoop(filters, whereClauses, values) ==
    IF filters = <<>>
    THEN [threw |-> FALSE, error |-> NoError,
          whereClauses |-> whereClauses, values |-> values]
    ELSE LET column == Head(filters).column
             operator == Head(filters).operator
             value == Head(filters).value
         IN  IF operator \notin allowedOperators
             THEN [threw |-> TRUE, error |-> ClientError(InvalidOperator(operator), null),
                   whereClauses |-> whereClauses, values |-> values]
             ELSE LET col == Ident(column, sanitizeIdentifier(column))
                  IN  IF operator = <<"IN">> /\ value.t = "array"
                      THEN FilterLoop(Tail(filters),
                               Append(whereClauses,
                                      <<col, Lit(" IN (")>> \o Placeholders(Len(value.n))
                                          \o <<Lit(")")>>),
                               values \o [i \in 1..Len(value.n) |-> Num(value.n[i])])
                      ELSE FilterLoop(Tail(filters),
                               Append(whereClauses,
                                      <<col, Lit(" "), Frag("op", operator, operator),
                                        Lit(" ?")>>),
                               Append(values, value))

\* limit, taken as a condition
Truthy(v) ==
    CASE v.t \in {"undefined", "null"} -> FALSE
      [] v.t = "number" -> v.n # <<0>>
      [] OTHER -> TRUE

\* Number.isInteger(limit)
IsInteger(v) == v.t = "number" /\ Len(v.n) = 1

\* a condition that leaves Number.isInteger out
LimitAppliesUnchecked(limit) == Truthy(limit) /\ limit.n[1] > 0

\* limit && Number.isInteger(limit) && limit > 0
LimitApplies(limit) == Truthy(limit) /\ IsInteger(limit) /\ limit.n[1] > 0

rawGetData(tableName, columns, filters, limit) ==
    LET valid == validateString(tableName, InvalidTableName)
        cols == IF columns = <<>> THEN <<Star>> ELSE columns
        columnsSql == JoinWith([i \in 1..Len(cols) |->
                                   <<Ident(cols[i], sanitizeIdentifier(cols[i]))>>],
                               <<Lit(", ")>>)
        loop == FilterLoop(filters, <<>>, <<>>)
        select == <<Lit("SELECT ")>> \o columnsSql \o <<Lit(" FROM "),
                                                         Ident(tableName, tableName)>>
        where == IF Len(loop.whereClauses) > 0
                 THEN <<Lit(" WHERE ")>> \o JoinWith(loop.whereClauses, <<Lit(" AND ")>>)
                 ELSE <<>>
        lim == IF LimitApplies(limit)
               THEN <<Lit(" LIMIT "), Frag("num", DecStr(limit.n[1]), DecStr(limit.n[1]))>>
               ELSE <<>>
    IN  IF ~valid.ok THEN Threw(valid.error)
        ELSE IF loop.threw THEN Threw(loop.error)
        ELSE Built(select \o where \o lim, loop.values)

(***************************************************************************)
(* rawInsertData, rawInsertBulk, rawUpdateData, rawToggleColumn and        *)
(* rawDeleteById, up to the statement handed to db.run.  An object is the  *)
(* sequence of its [k, v] entries in key order.                            *)
(***************************************************************************)
Keys(data) == [i \in 1..Len(data) |-> data[i].k]
Values(data) == [i \in 1..Len(data) |-> data[i].v]

\* row[k]
Get(row, k) ==
    IF \E i \in 1..Len(row) : row[i].k = k
    THEN row[CHOOSE i \in 1..Len(row) : row[i].k = k].v
    ELSE Undefined

\* keys.join(', '): the keys are written as they are
KeyList(keys) == JoinWith([i \in 1..Len(keys) |-> <<Ident(keys[i], keys[i])>>],
                          <<Lit(", ")>>)

rawInsertData(tableName, data) ==
    LET keys == Keys(data)
        values == Values(data)
    IN  IF Len(keys) = 0
        THEN Threw(ClientError(<<"No fields were passed to insert.">>, null))
        ELSE Built(<<Lit("INSERT INTO "), Ident(tableName, tableName), Lit(" (")>>
                       \o KeyList(keys) \o <<Lit(") VALUES (")>>
                       \o Placeholders(Len(keys)) \o <<Lit(")")>>,
                   values)

\* a bulk insert that binds every record's own values, in the record's order
rawInsertBulkOwnValues(tableName, dataArray) ==
    IF Len(dataArray) = 0
    THEN Threw(ClientError(<<"No data provided for bulk insert.">>, null))
    ELSE LET keys == Keys(dataArray[1])
             rowPlaceholders == <<Lit("(")>> \o Placeholders(Len(keys)) \o <<Lit(")")>>
             allPlaceholders == JoinWith([i \in 1..Len(dataArray) |-> rowPlaceholders],
                                         <<Lit(", ")>>)
             values == Flatten([r \in 1..Len(dataArray) |->
                                   [i \in 1..Len(dataArray[r]) |-> dataArray[r][i].v]])
         IN  IF Len(keys) = 0
             THEN Threw(ClientError(<<"Each data object must have at least one field.">>,
                                    null))
             ELSE Built(<<Lit("INSERT INTO "), Ident(tableName, tableName), Lit(" (")>>
                            \o KeyList(keys) \o <<Lit(") VALUES ")>> \o allPlaceholders,
                        values)

rawInsertBulk(tableName, dataArray) ==
    IF Len(dataArray) = 0
    THEN Threw(ClientError(<<"No data provided for bulk insert.">>, null))
    ELSE LET keys == Keys(dataArray[1])
             rowPlaceholders == <<Lit("(")>> \o Placeholders(Len(keys)) \o <<Lit(")")>>
             allPlaceholders == JoinWith([i \in 1..Len(dataArray) |-> rowPlaceholders],
                                         <<Lit(", ")>>)
             values == Flatten([r \in 1..Len(dataArray) |->
                                   [i \in 1..Len(keys) |-> Get(dataArray[r], keys[i])]])
         IN  IF Len(keys) = 0
             THEN Threw(ClientError(<<"Each data object must have at least one field.">>,
                                    null))
             ELSE Built(<<Lit("INSERT INTO "), Ident(tableName, tableName), Lit(" (")>>
                            \o KeyList(keys) \o <<Lit(") VALUES ")>> \o allPlaceholders,
                        values)

rawUpdateData(tableName, id, newRow) ==
    LET valid == validateString(tableName, InvalidTableName)
        keys == Keys(newRow)
        setClause == JoinWith([i \in 1..Len(keys) |->
                                  <<Ident(keys[i], keys[i]), Lit(" = ?")>>],
                              <<Lit(", ")>>)
        values == Append([i \in 1..Len(keys) |-> Get(newRow, keys[i])], id)
    IN  IF ~valid.ok THEN Threw(valid.error)
        ELSE IF Len(keys) = 0 THEN Threw(ClientError(<<"No data to update">>, null))
        ELSE Built(<<Lit("UPDATE "), Ident(tableName, tableName), Lit(" SET ")>>
                       \o setClause \o <<Lit(" WHERE id = ?")>>,
                   values)

rawToggleColumn(tableName, id, columnName) ==
    LET validTable == validateString(tableName, InvalidTableName)
        validColumn == validateString(columnName, InvalidColumnName)
        col == Ident(columnName, sanitizeIdentifier(columnName))
    IN  IF ~validTable.ok THEN Threw(validTable.error)
        ELSE IF ~validColumn.ok THEN Threw(validColumn.error)
        ELSE Built(<<Lit("UPDATE "), Ident(tableName, tableName), Lit(" SET "), col,
                     Lit(" = CASE "), col, Lit(" WHEN 1 THEN 0 ELSE 1 END WHERE id = ?")>>,
                   <<id>>)

\* a DELETE that writes the id into the text instead of binding it
rawDeleteByIdInterpolated(tableName, id) ==
    Built(<<Lit("DELETE FROM "), Ident(tableName, tableName), Lit(" WHERE id = "),
            Frag("num", DecStr(id.n[1]), DecStr(id.n[1]))>>,
          <<>>)

rawDeleteById(tableName, id) ==
    LET valid == validateString(tableName, InvalidTableName)
    IN  IF ~valid.ok THEN Threw(valid.error)
        ELSE Built(<<Lit("DELETE FROM "), Ident(tableName, tableName),
                     Lit(" WHERE id = ?")>>,
                   <<id>>)

(***************************************************************************)
(* The store.  The schema is the one the statements of part_000 and the    *)
(* controllers name; a row is a function from its columns to numbers, with *)
(* NULL for a column no value was given for.  Prices and totals are kept   *)
(* in thousandths, so that rounding to two decimals does something.        *)
(***************************************************************************)
NULL == -1

Tables == {"users", "products", "purchases", "purchase_items"}

Columns(table) ==
    CASE table = "users" -> {"id", "email", "active"}
      [] table = "products" -> {"id", "price"}
      [] table = "purchases" -> {"id", "buyer_id", "total"}
      [] table = "purchase_items" ->
             {"id", "purchase_id", "product_id", "quantity", "price_at_time"}

InitialStore ==
    [users |-> {[id |-> 1, email |-> 1, active |-> 1]},
     products |-> {[id |-> 1, price |-> 9990], [id |-> 2, price |-> 1256]},
     purchases |-> {[id |-> 1, buyer_id |-> 1, total |-> 1260],
                    [id |-> 2, buyer_id |-> 1, total |-> 9990]},
     purchase_items |->
         {[id |-> 1, purchase_id |-> 1, product_id |-> 2, quantity |-> 1,
           price_at_time |-> 1256],
          [id |-> 2, purchase_id |-> 2, product_id |-> 1, quantity |-> 1,
           price_at_time |-> 9990]}]

Max(S) == CHOOSE x \in S : \A y \in S : x >= y

Ids(rows) == {r.id : r \in rows}

\* the rows of a result set, in rowid order
RECURSIVE InIdOrder(_)
InIdOrder(rows) ==
    IF rows = {} THEN <<>>
    ELSE LET first == CHOOSE r \in rows : \A q \in rows : r.id <= q.id
         IN  <<first>> \o InIdOrder(rows \ {first})

\* the number the engine stores for a bound parameter
Stored(v) == IF v.t = "number" THEN v.n[1] ELSE NULL

\* the row an INSERT of the entries of data creates
NewRow(table, id, data) ==
    [c \in Columns(table) |->
        IF c = "id" THEN id
        ELSE IF \E i \in 1..Len(data) : data[i].k = <<c>>
        THEN Stored(Get(data, <<c>>))
        ELSE NULL]

RECURSIVE InsertAll(_, _, _)
InsertAll(rows, table, datas) ==
    IF datas = <<>> THEN rows
    ELSE InsertAll(rows \cup {NewRow(table, Max(Ids(rows) \cup {0}) + 1, Head(datas))},
                   table, Tail(datas))

\* What a statement means to the engine: kind, table, and the values bound.
Sem(kind, table, id, ids, datas, column) ==
    [kind |-> kind, table |-> table, id |-> id, ids |-> ids, datas |-> datas,
     column |-> column]

IsWrite(sem) == sem.kind \in {"INSERT", "UPDATE", "DELETE"}

\* the rows a SELECT returns from the store s; the join of part_000 is
\* purchase_items with products (the categories are not modelled)
ReadRows(s, sem) ==
    IF sem.kind = "JOIN"
    THEN LET its == InIdOrder({r \in s.purchase_items :
                                  /\ r.purchase_id = sem.id
                                  /\ r.product_id \in Ids(s.products)})
         IN  [i \in 1..Len(its) |->
                 [item_id |-> its[i].id, quantity |-> its[i].quantity,
                  price_at_time |-> its[i].price_at_time,
                  product_id |-> its[i].product_id,
                  product_price |->
                      (CHOOSE q \in s.products : q.id = its[i].product_id).price]]
    ELSE InIdOrder({r \in s[sem.table] : r.id \in sem.ids})

\* the store after a write, the rowid it generated and the rows it changed
WriteStore(s, sem) ==
    LET rows == s[sem.table]
        hit == {r \in rows : r.id = sem.id}
    IN  CASE sem.kind = "INSERT" ->
               LET new == InsertAll(rows, sem.table, sem.datas)
               IN  [store |-> [s EXCEPT ![sem.table] = new],
                    lastID |-> Max(Ids(new)), changes |-> Len(sem.datas)]
          [] sem.kind = "UPDATE" /\ sem.column = "" ->
               [store |-> [s EXCEPT ![sem.table] =
                              (rows \ hit) \cup
                              {[c \in Columns(sem.table) |->
                                   IF \E i \in 1..Len(sem.datas[1]) :
                                          sem.datas[1][i].k = <<c>>
                                   THEN Stored(Get(sem.datas[1], <<c>>))
                                   ELSE r[c]] : r \in hit}],
                lastID |-> 0, changes |-> Cardinality(hit)]
          [] sem.kind = "UPDATE" /\ sem.column # "" ->
               [store |-> [s EXCEPT ![sem.table] =
                              (rows \ hit) \cup
                              {[r EXCEPT ![sem.column] = IF @ = 1 THEN 0 ELSE 1] :
                                   r \in hit}],
                lastID |-> 0, changes |-> Cardinality(hit)]
          [] sem.kind = "DELETE" ->
               [store |-> [s EXCEPT ![sem.table] = rows \ hit],
                lastID |-> 0, changes |-> Cardinality(hit)]

(***************************************************************************)
(* The engine: SQLite behind the sqlite driver.  A connection is in        *)
(* autocommit mode until BEGIN; inside a transaction its writes stay in    *)
(* its own pages (work) and need the write lock; outside one a write is    *)
(* durable at once.  Any statement can fail with an I/O error.             *)
(***************************************************************************)
IoError == <<"SQLITE_IOERR: ", "disk I/O error">>
CantOpen == <<"SQLITE_CANTOPEN: ", "unable to open database file">>
Busy == <<"SQLITE_BUSY: ", "database is locked">>
NoTransaction == <<"SQLITE_ERROR: ", "cannot rollback - no transaction is active">>
NoSuchTable(table) == <<"SQLITE_ERROR: ", NoTablePhrase, table>>

NoWork == [t \in Tables |-> {}]

\* the number of I/O failures in one run of the model
MaxFaults == 1

\* the failures that may happen to any statement, while the budget lasts
Faults(msgs) == IF faults < MaxFaults THEN msgs ELSE {}

CountFault(o) == faults' = IF ~o.ok /\ o.msg \in {IoError, CantOpen} THEN faults + 1 ELSE faults

FreshConn == [tx |-> FALSE, wrote |-> FALSE, work |-> NoWork]

\* a read that sees the pages of the connection writing at the moment
ViewDirty(c) ==
    IF writer # 0 /\ conns[writer].wrote THEN conns[writer].work ELSE committed

\* what connection c reads
View(c) == IF conns[c].tx /\ conns[c].wrote THEN conns[c].work ELSE committed

Failure(msg) ==
    [ok |-> FALSE, msg |-> msg, rows |-> <<>>, lastID |-> 0, changes |-> 0,
     wrote |-> FALSE, store |-> NoWork]

\* the ways the engine can answer a statement run on connection c
Outcomes(c, sem) ==
    Faults({Failure(IoError)}) \cup
    IF sem.table \notin Tables THEN {Failure(NoSuchTable(sem.table))}
    ELSE IF IsWrite(sem) /\ writer \notin {0, c} THEN {Failure(Busy)}
    ELSE IF IsWrite(sem)
    THEN LET w == WriteStore(View(c), sem)
         IN  {[ok |-> TRUE, msg |-> <<>>, rows |-> <<>>, lastID |-> w.lastID,
               changes |-> w.changes, wrote |-> TRUE, store |-> w.store]}
    ELSE {[ok |-> TRUE, msg |-> <<>>, rows |-> ReadRows(View(c), sem), lastID |-> 0,
           changes |-> 0, wrote |-> FALSE, store |-> NoWork]}

\* the effect of the answer o on the store
Apply(c, o) ==
    /\ CountFault(o)
    /\ IF o.ok /\ o.wrote
       THEN IF conns[c].tx
            THEN /\ conns' = [conns EXCEPT ![c] = [tx |-> TRUE, wrote |-> TRUE,
                                                    work |-> o.store]]
                 /\ writer' = c
                 /\ UNCHANGED committed
            ELSE /\ committed' = o.store
                 /\ UNCHANGED <<conns, writer>>
       ELSE UNCHANGED <<committed, conns, writer>>

\* BEGIN TRANSACTION on c: [ok, msg, tx after]
BeginOutcomes(c) ==
    {[ok |-> TRUE, msg |-> <<>>, tx |-> TRUE]} \cup
    Faults({[ok |-> FALSE, msg |-> IoError, tx |-> conns[c].tx]})

\* ROLLBACK on c: it fails when no transaction is active; when it fails for
\* another reason the transaction may or may not have ended
RollbackOutcomes(c) ==
    IF ~conns[c].tx THEN {[ok |-> FALSE, msg |-> NoTransaction, tx |-> FALSE]}
    ELSE {[ok |-> TRUE, msg |-> <<>>, tx |-> FALSE]} \cup
         Faults({[ok |-> FALSE, msg |-> IoError, tx |-> FALSE],
                 [ok |-> FALSE, msg |-> IoError, tx |-> TRUE]})

\* the effect of BEGIN or ROLLBACK answering o: a transaction that ends
\* drops its pages and gives the write lock back
ApplyTx(c, o) ==
    /\ CountFault(o)
    /\ conns' = [conns EXCEPT ![c] = IF o.tx THEN [@ EXCEPT !.tx = TRUE] ELSE FreshConn]
    /\ writer' = IF ~o.tx /\ writer = c THEN 0 ELSE writer
    /\ UNCHANGED committed

(***************************************************************************)
(* The callers and the calls they make.                                    *)
(***************************************************************************)
\* two callers, whose calls run concurrently
Callers == {1, 2}

\* the number of calls made in all
MaxCalls == 2

Entry(k, n) == [k |-> <<k>>, v |-> Num(n)]

Request(fn, tableName, id, data, columnName, purchaseData) ==
    [fn |-> fn, tableName |-> tableName, id |-> id, data |-> data,
     columnName |-> columnName, purchaseData |-> purchaseData]

NoPurchase == [buyer_id |-> 0, products |-> <<>>]

Item(product_id, quantity) == <<Entry("product_id", product_id), Entry("quantity", quantity)>>

Requests ==
    {Request("insertToTable", <<"users">>, 0, <<Entry("email", 2)>>, <<>>, NoPurchase),
     Request("insertToTable", <<"users">>, 0, <<>>, <<>>, NoPurchase),
     Request("updateData", <<"users">>, 1, <<Entry("email", 3)>>, <<>>, NoPurchase),
     Request("updateData", <<"users">>, 7, <<Entry("email", 3)>>, <<>>, NoPurchase),
     Request("toggleBooleanField", <<"users">>, 1, <<>>, <<"active">>, NoPurchase),
     Request("toggleBooleanField", <<"users">>, 7, <<>>, <<"active">>, NoPurchase),
     Request("deleteRowById", <<"users">>, 1, <<>>, <<>>, NoPurchase),
     Request("deleteRowById", <<"users">>, 7, <<>>, <<>>, NoPurchase),
     Request("getDataById", <<"users">>, 1, <<>>, <<>>, NoPurchase),
     Request("getDataById", <<"users">>, 2, <<>>, <<>>, NoPurchase),
     Request("createPurchase", <<>>, 0, <<>>, <<>>,
             [buyer_id |-> 1, products |-> <<Item(1, 2)>>]),
     Request("createPurchase", <<>>, 0, <<>>, <<>>,
             [buyer_id |-> 1, products |-> <<Item(2, 1), Item(2, 2)>>]),
     Request("createPurchase", <<>>, 0, <<>>, <<>>,
             [buyer_id |-> 1, products |-> <<Item(3, 1)>>]),
     Request("getPurchase", <<>>, 1, <<>>, <<>>, NoPurchase),
     Request("getPurchase", <<>>, 7, <<>>, <<>>, NoPurchase)}

NoRequest == Request("", <<>>, 0, <<>>, <<>>, NoPurchase)

\* the locals of a unit of work: step counts its awaits, n is the number the
\* last statement gave (lastID, changes), result is what it returns
NoLocals == [step |-> 0, n |-> 0, items |-> <<>>, total |-> 0, result |-> <<>>]

\* one call of a raw builder: its arguments, and what it produced
RawCall(fn, tableName, columns, filters, limit, data, dataArray, id, columnName) ==
    [fn |-> fn, tableName |-> tableName, columns |-> columns, filters |-> filters,
     limit |-> limit, data |-> data, dataArray |-> dataArray, id |-> id,
     columnName |-> columnName]

NoCall == RawCall("", <<>>, <<>>, <<>>, Undefined, <<>>, <<>>, Undefined, <<>>)

NotCalled == [fn |-> "", threw |-> FALSE, error |-> NoError]

\* one call of a helper: sanitizeIdentifier(name), parseSqliteError(err),
\* err an Error carrying message, or errorHandler(err), err of the class
\* name with message; and what the call returned or answered
HelperCall(fn, name, message) == [fn |-> fn, name |-> name, message |-> message]

NoHelperCall == HelperCall("", <<>>, <<>>)

NoResult == [fn |-> "", text |-> <<>>, error |-> NoError, status |-> 0, body |-> <<>>]

NoOutcome == [type |-> "none", value |-> <<>>, error |-> NoError]
Returned(value) == [type |-> "return", value |-> value, error |-> NoError]
Thrown(e) == [type |-> "throw", value |-> <<>>, error |-> e]

Init ==
    /\ committed = InitialStore
    /\ conns = <<>>
    /\ writer = 0
    /\ pc = [p \in Callers |-> "idle"]
    /\ req = [p \in Callers |-> NoRequest]
    /\ db = [p \in Callers |-> 0]
    /\ loc = [p \in Callers |-> NoLocals]
    /\ err = [p \in Callers |-> NoError]
    /\ outcome = [p \in Callers |-> NoOutcome]
    /\ log = [p \in Callers |-> <<>>]
    /\ started = 0
    /\ faults = 0
    /\ bin = NoCall
    /\ bout = NotCalled
    /\ bsent = <<>>
    /\ hin = NoHelperCall
    /\ hout = NoResult

(***************************************************************************)
(* decoratores.js: withSimulatedTransaction.                               *)
(***************************************************************************)
\* a caller invokes a wrapped function; the callers are interchangeable, so
\* the free caller with the lowest number makes the call
Start(p) ==
    /\ pc[p] \in {"idle", "done"}
    /\ \A q \in Callers : q < p => pc[q] \notin {"idle", "done"}
    /\ started < MaxCalls
    /\ \E r \in Requests : req' = [req EXCEPT ![p] = r]
    /\ pc' = [pc EXCEPT ![p] = "open"]
    /\ db' = [db EXCEPT ![p] = 0]
    /\ loc' = [loc EXCEPT ![p] = NoLocals]
    /\ err' = [err EXCEPT ![p] = NoError]
    /\ outcome' = [outcome EXCEPT ![p] = NoOutcome]
    /\ log' = [log EXCEPT ![p] = <<>>]
    /\ started' = started + 1
    /\ UNCHANGED <<committed, conns, writer, faults>>

\* err is thrown inside the outer try
Raise(p, e) ==
    /\ err' = [err EXCEPT ![p] = e]
    /\ pc' = [pc EXCEPT ![p] = "catch"]

\* the statement is sent on the caller's connection and the engine answers
Issue(p, statement, ok) ==
    log' = [log EXCEPT ![p] = Append(@, [statement |-> statement, ok |-> ok])]

\* db = await openDb(): open() and then the PRAGMA (errors.js, openDb)
OpenDb(p) ==
    /\ pc[p] = "open"
    /\ \/ /\ faults < MaxFaults
          /\ faults' = faults + 1
          /\ Raise(p, EngineError(CantOpen))
          /\ Issue(p, "OPEN", FALSE)
          /\ UNCHANGED <<conns, db>>
       \/ /\ faults < MaxFaults
          /\ faults' = faults + 1
          /\ conns' = Append(conns, FreshConn)
          /\ Raise(p, EngineError(IoError))
          /\ log' = [log EXCEPT ![p] = @ \o <<[statement |-> "OPEN", ok |-> TRUE],
                                               [statement |-> "PRAGMA", ok |-> FALSE]>>]
          /\ UNCHANGED db
       \/ /\ conns' = Append(conns, FreshConn)
          /\ db' = [db EXCEPT ![p] = Len(conns) + 1]
          /\ pc' = [pc EXCEPT ![p] = "begin"]
          /\ log' = [log EXCEPT ![p] = @ \o <<[statement |-> "OPEN", ok |-> TRUE],
                                               [statement |-> "PRAGMA", ok |-> TRUE]>>]
          /\ UNCHANGED <<err, faults>>
    /\ UNCHANGED <<committed, writer, req, loc, outcome, started>>

\* a wrapper that calls fn without BEGIN TRANSACTION
BeginNotIssued(p) ==
    /\ pc[p] = "begin"
    /\ pc' = [pc EXCEPT ![p] = "work"]
    /\ loc' = [loc EXCEPT ![p].step = 1]
    /\ UNCHANGED <<committed, conns, writer, req, db, err, outcome, log, started, faults>>

\* a wrapper that calls fn whatever BEGIN TRANSACTION answered
BeginFailureIgnored(p) ==
    /\ pc[p] = "begin"
    /\ \E o \in BeginOutcomes(db[p]) :
          /\ ApplyTx(db[p], o)
          /\ Issue(p, "BEGIN", o.ok)
    /\ pc' = [pc EXCEPT ![p] = "work"]
    /\ loc' = [loc EXCEPT ![p].step = 1]
    /\ UNCHANGED <<req, db, err, outcome, started>>

\* await db.run('BEGIN TRANSACTION')
Begin(p) ==
    /\ pc[p] = "begin"
    /\ \E o \in BeginOutcomes(db[p]) :
          /\ ApplyTx(db[p], o)
          /\ IF o.ok
             THEN /\ pc' = [pc EXCEPT ![p] = "work"]
                  /\ loc' = [loc EXCEPT ![p].step = 1]
                  /\ UNCHANGED err
             ELSE /\ Raise(p, EngineError(o.msg))
                  /\ UNCHANGED loc
          /\ Issue(p, "BEGIN", o.ok)
    /\ UNCHANGED <<req, db, outcome, started>>

\* throw parseSqliteError(rollbackErr): decoratores.js neither defines nor
\* imports parseSqliteError, so evaluating the name throws
ThrowParseSqliteError(rollbackErr) ==
    PlainError("ReferenceError", <<"parseSqliteError is not defined">>)

InternalServerError == <<"Internal server error">>

\* a catch that wraps whatever it caught
RethrowAllWrapped(e) == ServerError(InternalServerError, e.message)

\* a catch that puts the caught message where the caller sees it
RethrowMessageShown(e) ==
    IF IsClientError(e) THEN e ELSE ServerError(e.message, null)

\* the end of the outer catch: what is thrown for the caught err
Rethrow(e) ==
    IF IsClientError(e) THEN e ELSE ServerError(InternalServerError, e.message)

\* const result = await fn(...) has returned: the ROLLBACK of the try block
RollbackAfterFn(p) ==
    /\ pc[p] = "rollback"
    /\ \E o \in RollbackOutcomes(db[p]) :
          /\ ApplyTx(db[p], o)
          /\ IF o.ok
             THEN /\ outcome' = [outcome EXCEPT ![p] = Returned(loc[p].result)]
                  /\ pc' = [pc EXCEPT ![p] = "done"]
                  /\ UNCHANGED err
             ELSE /\ Raise(p, ThrowParseSqliteError(EngineError(o.msg)))
                  /\ UNCHANGED outcome
          /\ Issue(p, "ROLLBACK", o.ok)
    /\ UNCHANGED <<req, db, loc, started>>

\* an outer catch without its ROLLBACK
CatchBlockNoRollback(p) ==
    /\ pc[p] = "catch"
    /\ outcome' = [outcome EXCEPT ![p] = Thrown(Rethrow(err[p]))]
    /\ pc' = [pc EXCEPT ![p] = "done"]
    /\ UNCHANGED <<committed, conns, writer, log, faults, req, db, loc, err, started>>

\* the outer catch: ROLLBACK if db is set, then rethrow or wrap
CatchBlock(p) ==
    /\ pc[p] = "catch"
    /\ IF db[p] # 0
       THEN /\ \E o \in RollbackOutcomes(db[p]) :
                  /\ ApplyTx(db[p], o)
                  /\ outcome' = [outcome EXCEPT ![p] =
                         IF o.ok THEN Thrown(Rethrow(err[p]))
                         ELSE Thrown(ThrowParseSqliteError(EngineError(o.msg)))]
                  /\ Issue(p, "ROLLBACK", o.ok)
       ELSE /\ outcome' = [outcome EXCEPT ![p] = Thrown(Rethrow(err[p]))]
            /\ UNCHANGED <<committed, conns, writer, log, faults>>
    /\ pc' = [pc EXCEPT ![p] = "done"]
    /\ UNCHANGED <<req, db, loc, err, started>>

(***************************************************************************)
(* part_000: the units of work.  Each action is one await of one of them.  *)
(***************************************************************************)
AtStep(p, fn, step) == pc[p] = "work" /\ req[p].fn = fn /\ loc[p].step = step

Proceed(p, n) ==
    /\ loc' = [loc EXCEPT ![p].step = @ + 1, ![p].n = n]
    /\ UNCHANGED <<pc, err>>

Return(p, value) ==
    /\ loc' = [loc EXCEPT ![p].result = value]
    /\ pc' = [pc EXCEPT ![p] = "rollback"]
    /\ UNCHANGED err

ThrowInWork(p, e) == Raise(p, e) /\ UNCHANGED loc

ById(id) == <<[column |-> <<"id">>, operator |-> <<"=">>, value |-> Num(id)]>>

SelectSem(tableName, ids) == Sem("SELECT", tableName[1], 0, ids, <<>>, "")

\* rows[0] || null
FirstOrNull(rows) == IF rows = <<>> THEN <<>> ELSE <<rows[1]>>


ElementNotFound == <<"Element not found or nothing changed">>
RecordNotFound == <<"Record not found or no change applied">>

UpdateChanged(p, o) ==
    IF o.changes = 0 THEN ThrowInWork(p, ClientError(ElementNotFound, null))
    ELSE Proceed(p, o.changes)

RecordChanged(p, o) ==
    IF o.changes = 0 THEN ThrowInWork(p, ClientError(RecordNotFound, null))
    ELSE Proceed(p, o.changes)

RecordDeleted(p, o) ==
    IF o.changes = 0 THEN ThrowInWork(p, ClientError(RecordNotFound, null))
    ELSE Return(p, <<[id |-> req[p].id]>>)

(***************************************************************************)
(* part_000: createPurchase.                                               *)
(***************************************************************************)
ProductIds(products) ==
    [i \in 1..Len(products) |-> Get(products[i], <<"product_id">>).n[1]]

\* the for loop: products.find, price_at_time, total; product_data.price
\* throws a TypeError when no product was found
RECURSIVE PurchaseLoop(_, _, _, _)
PurchaseLoop(items, products, purchaseItemsToInsert, total) ==
    IF items = <<>>
    THEN [threw |-> FALSE, items |-> purchaseItemsToInsert, total |-> total]
    ELSE LET item == Head(items)
             found == {i \in 1..Len(products) :
                          products[i].id = Get(item, <<"product_id">>).n[1]}
         IN  IF found = {}
             THEN [threw |-> TRUE, items |-> purchaseItemsToInsert, total |-> total]
             ELSE LET product_data == products[Min(found)]
                  IN  PurchaseLoop(Tail(items), products,
                          Append(purchaseItemsToInsert,
                                 Append(item, Entry("price_at_time", product_data.price))),
                          total + product_data.price * Get(item, <<"quantity">>).n[1])

\* a total cut to two decimals instead of rounded
RoundedTotalTruncated(total) == (total \div 10) * 10

\* parseFloat(total.toFixed(2)), on thousandths: the nearest hundredth.  No
\* total of the model lies halfway between two hundredths, where toFixed
\* goes by the binary value of the number.
RoundedTotal(total) == ((total + 5) \div 10) * 10

ReadOfUndefined == <<"Cannot read properties of undefined (reading 'price')">>
WriteOfUndefined == <<"Cannot set properties of undefined (setting 'purchase_items')">>

ProductsFetched(p, o) ==
    LET loop == PurchaseLoop(req[p].purchaseData.products, o.rows, <<>>, 0)
    IN  IF loop.threw THEN ThrowInWork(p, PlainError("TypeError", ReadOfUndefined))
        ELSE /\ loc' = [loc EXCEPT ![p].step = 2, ![p].items = loop.items,
                                   ![p].total = RoundedTotal(loop.total)]
             /\ UNCHANGED <<pc, err>>

PurchaseHeader(p) ==
    <<Entry("buyer_id", req[p].purchaseData.buyer_id), Entry("total", loc[p].total)>>

HeaderInserted(p, o) ==
    /\ loc' = [loc EXCEPT ![p].step = 3, ![p].n = o.lastID,
                          ![p].items = [i \in 1..Len(@) |->
                                           Append(@[i], Entry("purchase_id", o.lastID))]]
    /\ UNCHANGED <<pc, err>>

\* getPurchaseItemsWithProductAndCategory: rawQuery and rows.map
JoinSql == <<Lit("SELECT ... FROM purchase_items pi JOIN products p ON p.id = pi.product_id JOIN categories c ON c.id = p.category_id WHERE pi.purchase_id = ?")>>

rawQuery(sql, params) == Built(sql, params)

PurchaseItemsOf(rows) ==
    [i \in 1..Len(rows) |->
        [id |-> rows[i].item_id, quantity |-> rows[i].quantity,
         price_at_time |-> rows[i].price_at_time,
         item |-> [id |-> rows[i].product_id, price |-> rows[i].product_price]]]

ItemsJoined(p, o) ==
    IF loc[p].result = <<>>
    THEN ThrowInWork(p, PlainError("TypeError", WriteOfUndefined))
    ELSE Return(p, <<[purchase |-> loc[p].result[1],
                      purchase_items |-> PurchaseItemsOf(o.rows)]>>)

HeaderReread(p, o) ==
    /\ loc' = [loc EXCEPT ![p].step = 5, ![p].result = FirstOrNull(o.rows)]
    /\ UNCHANGED <<pc, err>>

\* a getPurchase that goes on to the join whether or not it found the header
PurchaseFoundUnchecked(p, o) ==
    /\ loc' = [loc EXCEPT ![p].step = 2, ![p].result = FirstOrNull(o.rows)]
    /\ UNCHANGED <<pc, err>>

\* getPurchase: if (purchase === undefined) return null
PurchaseFound(p, o) ==
    IF o.rows = <<>>
    THEN Return(p, <<>>)
    ELSE /\ loc' = [loc EXCEPT ![p].step = 2, ![p].result = <<o.rows[1]>>]
         /\ UNCHANGED <<pc, err>>

\* what the unit of work does with the answer of a statement that succeeded
Continue(then, p, o) ==
    CASE then = "ReturnFirstRow" -> Return(p, FirstOrNull(o.rows))
      [] then = "KeepLastID" -> Proceed(p, o.lastID)
      [] then = "UpdateChanged" -> UpdateChanged(p, o)
      [] then = "RecordChanged" -> RecordChanged(p, o)
      [] then = "RecordDeleted" -> RecordDeleted(p, o)
      [] then = "ProductsFetched" -> ProductsFetched(p, o)
      [] then = "HeaderInserted" -> HeaderInserted(p, o)
      [] then = "ItemsInserted" -> Proceed(p, loc[p].n)
      [] then = "HeaderReread" -> HeaderReread(p, o)
      [] then = "ItemsJoined" -> ItemsJoined(p, o)
      [] then = "PurchaseFound" -> PurchaseFound(p, o)

\* one raw call: the builder may throw before the engine is reached; an
\* engine failure is classified by parseSqliteError and thrown
StatementStep(p, b, sem, then) ==
    IF b.threw
    THEN /\ Raise(p, b.error)
         /\ UNCHANGED <<committed, conns, writer, log, loc, faults>>
    ELSE \E o \in Outcomes(db[p], sem) :
            /\ Apply(db[p], o)
            /\ Issue(p, sem.kind, o.ok)
            /\ IF o.ok THEN Continue(then, p, o)
               ELSE /\ Raise(p, parseSqliteError(EngineError(o.msg)))
                    /\ UNCHANGED loc

(***************************************************************************)
(* part_000: the statements of the units of work, one action each.         *)
(***************************************************************************)

\* rawGetData(tableName, ['*'], [{id = ...}], 1, db) and return the row
Reread(p, tableName, id) ==
    StatementStep(p, rawGetData(tableName, <<Star>>, ById(id), Num(1)),
                  SelectSem(tableName, {id}), "ReturnFirstRow")

InsertStatement(p) ==
    /\ AtStep(p, "insertToTable", 1)
    /\ StatementStep(p, rawInsertData(req[p].tableName, req[p].data),
                     Sem("INSERT", req[p].tableName[1], 0, {}, <<req[p].data>>, ""),
                     "KeepLastID")
    /\ UNCHANGED <<req, db, outcome, started>>

\* a re-read by the id 1 instead of the id the INSERT generated
InsertRereadFirstRow(p) ==
    /\ AtStep(p, "insertToTable", 2)
    /\ Reread(p, req[p].tableName, 1)
    /\ UNCHANGED <<req, db, outcome, started>>

\* a re-read that does not wait for the INSERT
InsertRereadEarly(p) ==
    /\ \/ AtStep(p, "insertToTable", 1)
       \/ AtStep(p, "insertToTable", 2)
    /\ Reread(p, req[p].tableName, loc[p].n)
    /\ UNCHANGED <<req, db, outcome, started>>

InsertReread(p) ==
    /\ AtStep(p, "insertToTable", 2)
    /\ Reread(p, req[p].tableName, loc[p].n)
    /\ UNCHANGED <<req, db, outcome, started>>

GetById(p) ==
    /\ AtStep(p, "getDataById", 1)
    /\ Reread(p, req[p].tableName, req[p].id)
    /\ UNCHANGED <<req, db, outcome, started>>

UpdateStatement(p) ==
    /\ AtStep(p, "updateData", 1)
    /\ StatementStep(p, rawUpdateData(req[p].tableName, Num(req[p].id), req[p].data),
                     Sem("UPDATE", req[p].tableName[1], req[p].id, {}, <<req[p].data>>, ""),
                     "UpdateChanged")
    /\ UNCHANGED <<req, db, outcome, started>>

UpdateReread(p) ==
    /\ AtStep(p, "updateData", 2)
    /\ Reread(p, req[p].tableName, req[p].id)
    /\ UNCHANGED <<req, db, outcome, started>>

ToggleStatement(p) ==
    /\ AtStep(p, "toggleBooleanField", 1)
    /\ StatementStep(p, rawToggleColumn(req[p].tableName, Num(req[p].id),
                                        req[p].columnName),
                     Sem("UPDATE", req[p].tableName[1], req[p].id, {}, <<>>,
                         req[p].columnName[1]),
                     "RecordChanged")
    /\ UNCHANGED <<req, db, outcome, started>>

ToggleReread(p) ==
    /\ AtStep(p, "toggleBooleanField", 2)
    /\ Reread(p, req[p].tableName, req[p].id)
    /\ UNCHANGED <<req, db, outcome, started>>

DeleteStatement(p) ==
    /\ AtStep(p, "deleteRowById", 1)
    /\ StatementStep(p, rawDeleteById(req[p].tableName, Num(req[p].id)),
                     Sem("DELETE", req[p].tableName[1], req[p].id, {}, <<>>, ""),
                     "RecordDeleted")
    /\ UNCHANGED <<req, db, outcome, started>>

PurchaseFetchProducts(p) ==
    /\ AtStep(p, "createPurchase", 1)
    /\ LET ids == ProductIds(req[p].purchaseData.products)
       IN  StatementStep(p,
               rawGetData(<<"products">>, <<Star>>,
                          <<[column |-> <<"id">>, operator |-> <<"IN">>,
                             value |-> Arr(ids)]>>, Null),
               SelectSem(<<"products">>, {ids[i] : i \in 1..Len(ids)}),
               "ProductsFetched")
    /\ UNCHANGED <<req, db, outcome, started>>

PurchaseInsertHeader(p) ==
    /\ AtStep(p, "createPurchase", 2)
    /\ StatementStep(p, rawInsertData(<<"purchases">>, PurchaseHeader(p)),
                     Sem("INSERT", "purchases", 0, {}, <<PurchaseHeader(p)>>, ""),
                     "HeaderInserted")
    /\ UNCHANGED <<req, db, outcome, started>>

PurchaseInsertItems(p) ==
    /\ AtStep(p, "createPurchase", 3)
    /\ StatementStep(p, rawInsertBulk(<<"purchase_items">>, loc[p].items),
                     Sem("INSERT", "purchase_items", 0, {}, loc[p].items, ""),
                     "ItemsInserted")
    /\ UNCHANGED <<req, db, outcome, started>>

PurchaseReread(p) ==
    /\ AtStep(p, "createPurchase", 4)
    /\ StatementStep(p, rawGetData(<<"purchases">>, <<Star>>, ById(loc[p].n), Num(1)),
                     SelectSem(<<"purchases">>, {loc[p].n}), "HeaderReread")
    /\ UNCHANGED <<req, db, outcome, started>>

PurchaseJoin(p) ==
    /\ AtStep(p, "createPurchase", 5)
    /\ StatementStep(p, rawQuery(JoinSql, <<Num(loc[p].n)>>),
                     Sem("JOIN", "purchase_items", loc[p].n, {}, <<>>, ""),
                     "ItemsJoined")
    /\ UNCHANGED <<req, db, outcome, started>>

GetPurchaseHeader(p) ==
    /\ AtStep(p, "getPurchase", 1)
    /\ StatementStep(p, rawGetData(<<"purchases">>, <<Star>>, ById(req[p].id), Num(1)),
                     SelectSem(<<"purchases">>, {req[p].id}), "PurchaseFound")
    /\ UNCHANGED <<req, db, outcome, started>>

GetPurchaseJoin(p) ==
    /\ AtStep(p, "getPurchase", 2)
    /\ StatementStep(p, rawQuery(JoinSql, <<Num(req[p].id)>>),
                     Sem("JOIN", "purchase_items", req[p].id, {}, <<>>, ""),
                     "ItemsJoined")
    /\ UNCHANGED <<req, db, outcome, started>>

(***************************************************************************)
(* The calls of the callers, interleaved at their awaits.                  *)
(***************************************************************************)
Next ==
    \E p \in Callers :
        \/ Start(p)
        \/ OpenDb(p)
        \/ Begin(p)
        \/ InsertStatement(p)
        \/ InsertReread(p)
        \/ GetById(p)
        \/ UpdateStatement(p)
        \/ UpdateReread(p)
        \/ ToggleStatement(p)
        \/ ToggleReread(p)
        \/ DeleteStatement(p)
        \/ PurchaseFetchProducts(p)
        \/ PurchaseInsertHeader(p)
        \/ PurchaseInsertItems(p)
        \/ PurchaseReread(p)
        \/ PurchaseJoin(p)
        \/ GetPurchaseHeader(p)
        \/ GetPurchaseJoin(p)
        \/ RollbackAfterFn(p)
        \/ CatchBlock(p)

MainNext == Next /\ UNCHANGED buildVars

Spec == Init /\ [][MainNext]_vars

(***************************************************************************)
(* The raw builders on their own: a call with arbitrary arguments, among   *)
(* them names that carry quote characters and SQL, up to the statement     *)
(* the builder hands to db.all or db.run.                                  *)
(***************************************************************************)
\* the longest filter list
MaxFilters == 2

\* the longest batch of rawInsertBulk
MaxRows == 2

SeqsUpTo(S, n) == UNION {[1..k -> S] : k \in 0..n}

TableNames == {<<"users">>, <<"users", "\"", "; DROP TABLE users; --">>, <<" ">>}

ColumnLists == {<<>>, <<Star>>, << <<"id">>, <<"na", "'", "me">> >>}

FilterSet ==
    [column : {<<"id">>, <<"pri", Backtick, "ce">>},
     operator : {<<"=">>, <<"IN">>, <<"DROP TABLE">>},
     value : {Num(1), Arr(<<1, 2>>)}]

Limits == {Num(2), Num(10), Num(0), Num(-3), Frac(2, 5), Str(5), Undefined, Null}

Datas ==
    {<<>>,
     <<[k |-> <<"email">>, v |-> Num(2)]>>,
     <<[k |-> <<"na", "\"", "me">>, v |-> Num(1)], [k |-> <<"active">>, v |-> Num(0)]>>}

ColumnNames == {<<"active">>, <<"act", "'", "ive">>, <<>>}

\* the names sanitizeIdentifier is given
Names ==
    {Star, <<>>, <<"users">>, <<"*", "users">>, <<"\"", "*", "\"">>,
     <<"\"", "users", "\"">>, <<"'", "users", "'">>, <<"na", "'", "me">>,
     <<Backtick, "pri", Backtick, "ce", "\"", "'">>,
     <<"users", "\"", "; DROP TABLE users; --">>}

\* the most engine messages concatenated into one
MaxPhrases == 2

\* what the engine says: one message per pattern of parseSqliteError, one
\* for no pattern, and a unique-constraint message on an index, which the
\* first pattern does not take
Phrases ==
    {<<UniquePhrase, "users", ".", "email">>,
     <<UniquePhrase, "index 'users_email'">>,
     <<NotNullPhrase, "users", ".", "name">>,
     <<NoColumnPhrase, "bogus">>,
     <<DatatypePhrase>>,
     <<CheckPhrase, "price">>,
     <<ForeignKeyPhrase>>,
     <<NoTablePhrase, "categories">>,
     <<"Error with database">>,
     <<"disk I/O error">>}

Messages == {Flatten(s) : s \in SeqsUpTo(Phrases, MaxPhrases)}

\* the errors that reach the handler: the classes of errors.js, the
\* built-ins thrown in part_000 and decoratores.js and the driver's Error,
\* each with a message or with the empty message
HelperCalls ==
    {HelperCall("sanitizeIdentifier", n, <<>>) : n \in Names}
    \cup {HelperCall("parseSqliteError", <<>>, m) : m \in Messages}
    \cup {HelperCall("errorHandler", <<c>>, m) :
             c \in {"AppError", "ClientError", "ServerError", "NotFoundError",
                    "TypeError", "ReferenceError", "Error"},
             m \in {<<>>, <<"Element not found or nothing changed">>, ReadOfUndefined,
                    <<"parseSqliteError is not defined">>, <<"Internal server error">>}}

RawCalls ==
    {RawCall("rawGetData", t, c, f, l, <<>>, <<>>, Undefined, <<>>) :
        t \in TableNames, c \in ColumnLists, f \in SeqsUpTo(FilterSet, MaxFilters),
        l \in Limits}
    \cup {RawCall("rawInsertData", t, <<>>, <<>>, Undefined, d, <<>>, Undefined, <<>>) :
             t \in TableNames, d \in Datas}
    \cup {RawCall("rawInsertBulk", t, <<>>, <<>>, Undefined, <<>>, a, Undefined, <<>>) :
             t \in TableNames, a \in SeqsUpTo(Datas, MaxRows)}
    \cup {RawCall("rawUpdateData", t, <<>>, <<>>, Undefined, d, <<>>, Num(1), <<>>) :
             t \in TableNames, d \in Datas}
    \cup {RawCall("rawToggleColumn", t, <<>>, <<>>, Undefined, <<>>, <<>>, Num(1), c) :
             t \in TableNames, c \in ColumnNames}
    \cup {RawCall("rawDeleteById", t, <<>>, <<>>, Undefined, <<>>, <<>>, Num(1), <<>>) :
             t \in TableNames}

BuildInit ==
    /\ committed = InitialStore
    /\ conns = <<>>
    /\ writer = 0
    /\ pc = [p \in Callers |-> "idle"]
    /\ req = [p \in Callers |-> NoRequest]
    /\ db = [p \in Callers |-> 0]
    /\ loc = [p \in Callers |-> NoLocals]
    /\ err = [p \in Callers |-> NoError]
    /\ outcome = [p \in Callers |-> NoOutcome]
    /\ log = [p \in Callers |-> <<>>]
    /\ started = 0
    /\ faults = 0
    /\ \/ bin \in RawCalls /\ hin = NoHelperCall
       \/ bin = NoCall /\ hin \in HelperCalls
    /\ bout = NotCalled
    /\ bsent = <<>>
    /\ hout = NoResult

\* the raw function runs up to its db.all / db.run: it throws, or it hands
\* the statement and the bound values to the driver
RunBuilder(fn, b) ==
    /\ bout.fn = ""
    /\ bin.fn = fn
    /\ bout' = [fn |-> fn, threw |-> b.threw, error |-> b.error]
    /\ bsent' = IF b.threw THEN <<>> ELSE <<[sql |-> b.sql, values |-> b.values]>>
    /\ UNCHANGED <<bin, hin, hout>>
    /\ UNCHANGED mainVars

CallRawGetData ==
    RunBuilder("rawGetData", rawGetData(bin.tableName, bin.columns, bin.filters, bin.limit))

CallRawInsertData ==
    RunBuilder("rawInsertData", rawInsertData(bin.tableName, bin.data))

CallRawInsertBulk ==
    RunBuilder("rawInsertBulk", rawInsertBulk(bin.tableName, bin.dataArray))

CallRawUpdateData ==
    RunBuilder("rawUpdateData", rawUpdateData(bin.tableName, bin.id, bin.data))

CallRawToggleColumn ==
    RunBuilder("rawToggleColumn", rawToggleColumn(bin.tableName, bin.id, bin.columnName))

CallRawDeleteById ==
    RunBuilder("rawDeleteById", rawDeleteById(bin.tableName, bin.id))

\* sanitizeIdentifier(name)
CallSanitizeIdentifier ==
    /\ hin.fn = "sanitizeIdentifier"
    /\ hout.fn = ""
    /\ hout' = [NoResult EXCEPT !.fn = "sanitizeIdentifier",
                                !.text = sanitizeIdentifier(hin.name)]
    /\ UNCHANGED <<bin, bout, bsent, hin>>
    /\ UNCHANGED mainVars

\* parseSqliteError(err), err the Error the driver rejected with
CallParseSqliteError ==
    /\ hin.fn = "parseSqliteError"
    /\ hout.fn = ""
    /\ hout' = [NoResult EXCEPT !.fn = "parseSqliteError",
                                !.error = parseSqliteError(EngineError(hin.message))]
    /\ UNCHANGED <<bin, bout, bsent, hin>>
    /\ UNCHANGED mainVars

\* errorHandler(err, req, res, next), err built by new hin.name(hin.message)
CallErrorHandler ==
    /\ hin.fn = "errorHandler"
    /\ hout.fn = ""
    /\ LET class == hin.name[1]
           thrown == CASE class = "ClientError" -> ClientError(hin.message, null)
                       [] class = "NotFoundError" -> NotFoundError(hin.message, null)
                       [] class = "ServerError" -> ServerError(hin.message, null)
                       [] class = "AppError" -> AppError("AppError", hin.message, 500, null)
                       [] OTHER -> PlainError(class, hin.message)
           res == errorHandler(thrown)
       IN  hout' = [NoResult EXCEPT !.fn = "errorHandler", !.error = thrown,
                                    !.status = res.status, !.body = res.body]
    /\ UNCHANGED <<bin, bout, bsent, hin>>
    /\ UNCHANGED mainVars

BuildNext ==
    \/ CallSanitizeIdentifier
    \/ CallErrorHandler
    \/ CallParseSqliteError
    \/ CallRawGetData
    \/ CallRawInsertData
    \/ CallRawInsertBulk
    \/ CallRawUpdateData
    \/ CallRawToggleColumn
    \/ CallRawDeleteById

SpecBuild == BuildInit /\ [][BuildNext]_vars

(***************************************************************************)
(* Properties of withSimulatedTransaction (checked under Spec).            *)
(***************************************************************************)
Done(p) == pc[p] = "done"

Issued(p, statement) == \E i \in 1..Len(log[p]) : log[p][i].statement = statement

Failed(p, statement) ==
    \E i \in 1..Len(log[p]) : log[p][i].statement = statement /\ ~log[p][i].ok

\* C1: whatever calls were made, and whatever they returned or threw, the
\* committed contents of every table are the contents before the first call.
C1_NoWriteIsDurable == committed = InitialStore

\* two mutating calls have completed with a result: an insert that returned
\* its new row and a purchase that returned its header
C1_Witness ==
    \E p, q \in Callers :
        /\ Done(p) /\ req[p].fn = "insertToTable" /\ outcome[p].type = "return"
        /\ outcome[p].value # <<>> /\ outcome[p].value[1].email = 2
        /\ Done(q) /\ req[q].fn = "createPurchase" /\ outcome[q].type = "return"
        /\ outcome[q].value[1].purchase.total = 19980

\* C2: a call that acquired its connection has issued a ROLLBACK on it by the
\* time it returns or throws: after fn returned, after fn threw, and after
\* BEGIN TRANSACTION failed.
C2_RollbackIssued ==
    \A p \in Callers : Done(p) /\ db[p] # 0 => Issued(p, "ROLLBACK")

\* one call returned and another threw after its unit of work failed
C2_Witness ==
    \E p, q \in Callers :
        /\ Done(p) /\ db[p] # 0 /\ outcome[p].type = "return" /\ Issued(p, "ROLLBACK")
        /\ Done(q) /\ db[q] # 0 /\ outcome[q].type = "throw" /\ Issued(q, "UPDATE")
        /\ Issued(q, "ROLLBACK")

\* C3: when a call has completed, the transaction it opened is not open any
\* more, also when the ROLLBACK failed.
C3_TransactionEnded ==
    \A p \in Callers : Done(p) /\ db[p] # 0 => ~conns[db[p]].tx

\* the messages the engine of the model fails with
EngineMessages == {IoError, CantOpen, Busy, NoTransaction}

Classified == {parseSqliteError(EngineError(m)) : m \in EngineMessages}

\* C4: when the ROLLBACK of a call fails, the caller receives what
\* parseSqliteError returns for the rollback failure.
C4_RollbackFailureClassified ==
    \A p \in Callers :
        Done(p) /\ Failed(p, "ROLLBACK") =>
            /\ outcome[p].type = "throw"
            /\ outcome[p].error \in {parseSqliteError(EngineError(m)) :
                                        m \in {IoError, NoTransaction}}

\* C5: a ClientError raised by the unit of work, followed by a ROLLBACK that
\* succeeds, reaches the caller as that very error: class, message, raw, 400.
C5_ClientErrorUnchanged ==
    \A p \in Callers :
        Done(p) /\ IsClientError(err[p]) /\ ~Failed(p, "ROLLBACK") =>
            /\ outcome[p].type = "throw"
            /\ outcome[p].error = err[p]
            /\ outcome[p].error.statusCode = 400

\* updateData of a missing id threw its ClientError and the caller got it
C5_Witness ==
    \E p \in Callers :
        /\ Done(p) /\ req[p].fn = "updateData" /\ ~Failed(p, "ROLLBACK")
        /\ Issued(p, "ROLLBACK")
        /\ outcome[p] = Thrown(ClientError(ElementNotFound, null))

\* C6: an error that is no ClientError, raised by openDb, BEGIN or the unit
\* of work and followed by no failing ROLLBACK, reaches the caller as a
\* ServerError with status 500, the generic message and the original message
\* as raw.
C6_OtherErrorWrapped ==
    \A p \in Callers :
        Done(p) /\ err[p].name \notin {"ClientError", "none"} /\ ~Failed(p, "ROLLBACK") =>
            /\ outcome[p].type = "throw"
            /\ outcome[p].error.name = "ServerError"
            /\ outcome[p].error.statusCode = 500
            /\ outcome[p].error.message = InternalServerError
            /\ outcome[p].error.raw = err[p].message

\* createPurchase of an unknown product threw a TypeError inside the
\* transaction, the ROLLBACK succeeded and the caller got the ServerError
C6_Witness ==
    \E p \in Callers :
        /\ Done(p) /\ req[p].fn = "createPurchase" /\ err[p].name = "TypeError"
        /\ Issued(p, "ROLLBACK") /\ ~Failed(p, "ROLLBACK")
        /\ outcome[p] = Thrown(ServerError(InternalServerError, ReadOfUndefined))

\* C7: a call whose ROLLBACK fails, whose connection cannot be opened or
\* whose unit of work throws something that is no ClientError surfaces as a
\* ServerError.
C7_SurfacesAsServerError ==
    \A p \in Callers :
        Done(p) /\ (\/ Failed(p, "ROLLBACK")
                    \/ Failed(p, "OPEN")
                    \/ err[p].name = "TypeError") =>
            /\ outcome[p].type = "throw"
            /\ outcome[p].error.name = "ServerError"
            /\ outcome[p].error.statusCode = 500

\* C8: whenever the engine failed at a step of a call, the error the caller
\* receives is one parseSqliteError produced.
C8_EngineErrorsClassified ==
    \A p \in Callers :
        Done(p) /\ (\E i \in 1..Len(log[p]) : ~log[p][i].ok) =>
            /\ outcome[p].type = "throw"
            /\ outcome[p].error \in Classified

(***************************************************************************)
(* Properties of the raw builders (checked under SpecBuild).               *)
(***************************************************************************)
BadOperators(filters) ==
    {i \in 1..Len(filters) : filters[i].operator \notin allowedOperators}

\* C9: rawGetData, given a valid table name and a filter list with an
\* operator outside the whitelist, throws ClientError "Invalid operator
\* '<op>' in filter." and hands no statement to the engine.
C9_InvalidOperatorRejected ==
    bout.fn = "rawGetData" /\ ~IsBlank(bin.tableName) /\ BadOperators(bin.filters) # {} =>
        /\ bout.threw
        /\ bout.error.name = "ClientError"
        /\ bout.error.statusCode = 400
        /\ bout.error.message =
               <<"Invalid operator '">>
                   \o bin.filters[Min(BadOperators(bin.filters))].operator
                   \o <<"' in filter.">>
        /\ bsent = <<>>

\* the second filter of two carries DROP TABLE as its operator
C9_Witness ==
    /\ bout.fn = "rawGetData"
    /\ Len(bin.filters) = 2
    /\ bin.filters[1].operator = <<"IN">>
    /\ bin.filters[2].operator = <<"DROP TABLE">>
    /\ bout.threw
    /\ bsent = <<>>

\* C10: every identifier written into a statement (the table name, the
\* column names, the keys of a record) is what sanitizeIdentifier makes of
\* the name passed.
C10_IdentifiersSanitized ==
    \A s \in 1..Len(bsent) :
        \A i \in 1..Len(bsent[s].sql) :
            bsent[s].sql[i].kind = "ident" =>
                bsent[s].sql[i].text = sanitizeIdentifier(bsent[s].sql[i].raw)

\* another data value of the same kind: a number becomes another number, an
\* array an array of the same length
OtherValue(v) ==
    IF v.t \in {"number", "array", "string"}
    THEN [v EXCEPT !.n = [i \in 1..Len(v.n) |-> v.n[i] + 7]]
    ELSE v

OtherRecord(data) == [i \in 1..Len(data) |-> [data[i] EXCEPT !.v = OtherValue(@)]]

\* the same call with every data value replaced by another one
OtherValues(call) ==
    [call EXCEPT !.filters = [i \in 1..Len(@) |-> [@[i] EXCEPT !.value = OtherValue(@)]],
                 !.data = OtherRecord(@),
                 !.dataArray = [i \in 1..Len(@) |-> OtherRecord(@[i])],
                 !.id = OtherValue(@)]

\* what the builder named by a call makes of its arguments
StatementOf(call) ==
    CASE call.fn = "rawGetData" ->
             rawGetData(call.tableName, call.columns, call.filters, call.limit)
      [] call.fn = "rawInsertData" -> rawInsertData(call.tableName, call.data)
      [] call.fn = "rawInsertBulk" -> rawInsertBulk(call.tableName, call.dataArray)
      [] call.fn = "rawUpdateData" -> rawUpdateData(call.tableName, call.id, call.data)
      [] call.fn = "rawToggleColumn" ->
             rawToggleColumn(call.tableName, call.id, call.columnName)
      [] call.fn = "rawDeleteById" -> rawDeleteById(call.tableName, call.id)

\* C11: the SQL text of a statement does not depend on the data values:
\* the same call with other filter values, field values and id builds the
\* same text, and the values are exactly what the bound list changes by.
C11_ValuesOnlyBound ==
    bsent # <<>> =>
        LET other == StatementOf(OtherValues(bin))
        IN  /\ ~other.threw
            /\ other.sql = bsent[1].sql
            /\ other.values = [i \in 1..Len(bsent[1].values) |->
                                  OtherValue(bsent[1].values[i])]
            /\ \A i \in 1..Len(bsent[1].sql) : bsent[1].sql[i].kind = "num" =>
                   bout.fn = "rawGetData" /\ bsent[1].sql[i].raw = DecStr(bin.limit.n[1])

\* an UPDATE bound its field value and its id
C11_Witness ==
    /\ bout.fn = "rawUpdateData"
    /\ bsent # <<>>
    /\ bsent[1].values = <<Num(2), Num(1)>>

\* the fragments between WHERE and LIMIT
WherePart(sql) ==
    LET w == {i \in 1..Len(sql) : sql[i] = Lit(" WHERE ")}
        l == {i \in 1..Len(sql) : sql[i] = Lit(" LIMIT ")}
    IN  IF w = {} THEN <<>>
        ELSE SubSeq(sql, Min(w) + 1, IF l = {} THEN Len(sql) ELSE Min(l) - 1)

\* the pieces of a non-empty sequence between the occurrences of sep
RECURSIVE SplitOn(_, _)
SplitOn(seq, sep) ==
    LET at == {i \in 1..Len(seq) : seq[i] = sep}
    IN  IF at = {} THEN <<seq>>
        ELSE <<SubSeq(seq, 1, Min(at) - 1)>>
                 \o SplitOn(SubSeq(seq, Min(at) + 1, Len(seq)), sep)

IsPlaceholder(f) == f.kind = "lit" /\ f.text \in {<<"?">>, <<" ?">>}

PlaceholdersIn(seq) == Cardinality({i \in 1..Len(seq) : IsPlaceholder(seq[i])})

\* the values one filter binds
BoundBy(filter) ==
    IF filter.operator = <<"IN">> /\ filter.value.t = "array"
    THEN [i \in 1..Len(filter.value.n) |-> Num(filter.value.n[i])]
    ELSE <<filter.value>>

\* C12: the statement of an accepted rawGetData has one clause per filter,
\* in filter order and joined with AND; the clause of an IN filter with an
\* array has one placeholder per element, every other clause has one; the
\* bound values are those of the filters in the same order, as many as there
\* are placeholders.
C12_PlaceholdersMatchValues ==
    bout.fn = "rawGetData" /\ bsent # <<>> =>
        LET sql == bsent[1].sql
            part == WherePart(sql)
            clauses == IF part = <<>> THEN <<>> ELSE SplitOn(part, Lit(" AND "))
        IN  /\ Len(clauses) = Len(bin.filters)
            /\ \A i \in 1..Len(clauses) :
                   /\ clauses[i] # <<>>
                   /\ clauses[i][1].kind = "ident"
                   /\ clauses[i][1].raw = bin.filters[i].column
                   /\ PlaceholdersIn(clauses[i]) = Len(BoundBy(bin.filters[i]))
                   /\ ~(bin.filters[i].operator = <<"IN">>
                            /\ bin.filters[i].value.t = "array") =>
                          clauses[i][3].text = bin.filters[i].operator
            /\ bsent[1].values = Flatten([i \in 1..Len(bin.filters) |->
                                             BoundBy(bin.filters[i])])
            /\ PlaceholdersIn(sql) = Len(bsent[1].values)

\* an IN filter over a two-element array followed by an equality filter
C12_Witness ==
    /\ bout.fn = "rawGetData"
    /\ Len(bin.filters) = 2
    /\ bin.filters[1].operator = <<"IN">> /\ bin.filters[1].value = Arr(<<1, 2>>)
    /\ bin.filters[2].operator = <<"=">>
    /\ bsent # <<>>
    /\ bsent[1].values = <<Num(1), Num(2), Num(1)>>

\* the positive integers among the limits, and how each is written
PositiveLimits == {Num(2), Num(10)}

LimitText(limit) == IF limit = Num(2) THEN <<"2">> ELSE <<"1", "0">>

\* C13: the statement of rawGetData ends with LIMIT and the limit when the
\* limit is a positive integer; for undefined, null, 0, a negative number, a
\* number that is no integer and a string it has no LIMIT clause and no
\* number in its text.
C13_LimitOnlyPositiveInteger ==
    bout.fn = "rawGetData" /\ bsent # <<>> =>
        LET sql == bsent[1].sql
            limits == {i \in 1..Len(sql) : sql[i] = Lit(" LIMIT ")}
            numbers == {i \in 1..Len(sql) : sql[i].kind = "num"}
        IN  IF bin.limit \in PositiveLimits
            THEN /\ limits = {Len(sql) - 1}
                 /\ numbers = {Len(sql)}
                 /\ sql[Len(sql)].text = LimitText(bin.limit)
            ELSE limits = {} /\ numbers = {}

\* a SELECT with a filter and the limit 10
C13_Witness ==
    /\ bout.fn = "rawGetData"
    /\ bin.limit = Num(10)
    /\ Len(bin.filters) = 1
    /\ bsent # <<>>
    /\ bsent[1].sql[Len(bsent[1].sql)].text = <<"1", "0">>

\* C14: sanitizeIdentifier returns * for the name *, and for every other
\* name the name without its quote characters between two double quotes:
\* no quote character is left inside, and sanitizing the result again
\* gives the result.
C14_SanitizerStripsAndQuotes ==
    hout.fn = "sanitizeIdentifier" =>
        LET name == hin.name
            out == hout.text
            body == SubSeq(out, 2, Len(out) - 1)
            kept == {i \in 1..Len(name) : name[i] \notin {"'", "\"", Backtick}}
        IN  /\ name = <<"*">> => out = <<"*">>
            /\ name # <<"*">> =>
                   /\ Len(out) = Cardinality(kept) + 2
                   /\ out[1] = "\"" /\ out[Len(out)] = "\""
                   /\ \A i \in 1..Len(body) : body[i] \notin {"'", "\"", Backtick}
                   /\ \A i \in 1..Len(body) :
                          \E j \in kept :
                              /\ body[i] = name[j]
                              /\ Cardinality({k \in kept : k <= j}) = i
            /\ sanitizeIdentifier(out) = out

\* a name with all three quote characters in it was sanitized
C14_Witness ==
    /\ hout.fn = "sanitizeIdentifier"
    /\ hin.name = <<Backtick, "pri", Backtick, "ce", "\"", "'">>
    /\ hout.text = <<"\"", "pri", "ce", "\"">>

\* whether the k-th pattern of parseSqliteError matches msg
Matches(k, msg) ==
    CASE k = 1 -> Match2(msg, UniquePhrase) # {}
      [] k = 2 -> Match2(msg, NotNullPhrase) # {}
      [] k = 3 -> Match1(msg, NoColumnPhrase) # {}
      [] k = 4 -> Includes(msg, DatatypePhrase)
      [] k = 5 -> Match1(msg, CheckPhrase) # {}
      [] k = 6 -> Includes(msg, ForeignKeyPhrase)
      [] k = 7 -> Match1(msg, NoTablePhrase) # {}
      [] k = 8 -> TRUE

\* how the message of the k-th kind of error ends
KindEnding ==
    <<"' already exists and must be unique.",
      "' is required and cannot be null.",
      "' does not exist in the table.",
      "Invalid data type for one or more columns. Please check that the types match the table schema.",
      "' does not satisfy the validation constraint.",
      "Foreign key constraint failed: one of the referenced values does not exist in the related table.",
      "' does not exist in the database.",
      "Error with database">>

\* C17: the error parseSqliteError returns is that of the first pattern, in
\* the order unique, not-null, unknown column, datatype, check, foreign key,
\* unknown table, fallback, that the message matches.
C17_FirstMatchWins ==
    hout.fn = "parseSqliteError" =>
        LET first == Min({k \in 1..8 : Matches(k, hin.message)})
            message == hout.error.message
        IN  /\ message # <<>>
            /\ message[Len(message)] = KindEnding[first]

\* a message matching the unknown-table pattern and then the unique pattern
\* was classified as the unique-constraint error
C17_Witness ==
    /\ hout.fn = "parseSqliteError"
    /\ hin.message = <<NoTablePhrase, "categories", UniquePhrase, "users", ".", "email">>
    /\ hout.error.message = <<"The value for column '", "email", "' in table '", "users",
                              "' already exists and must be unique.">>

\* C18: whatever the engine message, parseSqliteError returns a ClientError
\* with status 400 whose raw is that message.
C18_AlwaysClientErrorWithRaw ==
    hout.fn = "parseSqliteError" =>
        /\ hout.error.name = "ClientError"
        /\ hout.error.statusCode = 400
        /\ hout.error.raw = hin.message

\* a message no pattern matches came back as the fallback error
C18_Witness ==
    /\ hout.fn = "parseSqliteError"
    /\ hin.message = <<"disk I/O error">>
    /\ hout.error = ClientError(<<"Error with database">>, <<"disk I/O error">>)

(***************************************************************************)
(* Properties of the units of work (checked under Spec).                   *)
(***************************************************************************)
Succeeded(p, statement) ==
    \E i \in 1..Len(log[p]) : log[p][i].statement = statement /\ log[p][i].ok

\* the mutating statement of the call of p succeeded and changed no row
ChangedNothing(p) ==
    /\ req[p].fn \in {"updateData", "toggleBooleanField", "deleteRowById"}
    /\ Succeeded(p, IF req[p].fn = "deleteRowById" THEN "DELETE" ELSE "UPDATE")
    /\ req[p].id \notin Ids(InitialStore[req[p].tableName[1]])

\* C15 as stated: an update, toggle or delete that changes no row fails with
\* a ClientError (that of updateData saying Element not found or nothing
\* changed), issues no SELECT, still issues the ROLLBACK and returns nothing.
C15_ZeroChangeFails ==
    \A p \in Callers :
        Done(p) /\ ChangedNothing(p) =>
            /\ outcome[p].type = "throw"
            /\ outcome[p].error.name = "ClientError"
            /\ req[p].fn = "updateData" =>
                   outcome[p].error.message = <<"Element not found or nothing changed">>
            /\ ~Issued(p, "SELECT")
            /\ Issued(p, "ROLLBACK")

\* C15, with the ROLLBACK taken into account: an update, toggle or delete
\* that changes no row never returns, issues no SELECT and issues the
\* ROLLBACK; its unit of work throws the ClientError, and the caller
\* receives that ClientError when the ROLLBACK succeeded.
C15_ZeroChangeFailsWhenRolledBack ==
    \A p \in Callers :
        Done(p) /\ ChangedNothing(p) =>
            /\ outcome[p].type = "throw"
            /\ err[p] = ClientError(IF req[p].fn = "updateData"
                                    THEN <<"Element not found or nothing changed">>
                                    ELSE <<"Record not found or no change applied">>,
                                    null)
            /\ ~Failed(p, "ROLLBACK") => outcome[p].error = err[p]
            /\ ~Issued(p, "SELECT")
            /\ Issued(p, "ROLLBACK")

\* a toggle of a missing id failed with its ClientError after the ROLLBACK
C15_Witness ==
    \E p \in Callers :
        /\ Done(p) /\ req[p].fn = "toggleBooleanField" /\ ChangedNothing(p)
        /\ Issued(p, "ROLLBACK") /\ ~Failed(p, "ROLLBACK") /\ ~Issued(p, "SELECT")
        /\ outcome[p] = Thrown(ClientError(<<"Record not found or no change applied">>,
                                           null))

\* C16: an insertToTable that returns gives the row of the generated id
\* with every field of data in it, and the row is not in the table
\* afterwards: neither in the committed contents nor in what a getDataById
\* of that id returns.
C16_InsertReturnsRolledBackRow ==
    \A p \in Callers :
        Done(p) /\ req[p].fn = "insertToTable" /\ outcome[p].type = "return" =>
            /\ outcome[p].value # <<>>
            /\ LET row == outcome[p].value[1]
                   data == req[p].data
               IN  /\ row.id > 0
                   /\ row.id \notin Ids(InitialStore.users)
                   /\ \A i \in 1..Len(data) : row[data[i].k[1]] = data[i].v.n[1]
                   /\ row.id \notin Ids(committed.users)
                   /\ \A q \in Callers :
                          /\ Done(q) /\ req[q].fn = "getDataById"
                          /\ req[q].id = row.id /\ outcome[q].type = "return"
                          => outcome[q].value = <<>>

\* an insert returned its row with id 2, and a getDataById of 2 returned null
C16_Witness ==
    \E p, q \in Callers :
        /\ Done(p) /\ req[p].fn = "insertToTable"
        /\ outcome[p] = Returned(<<[id |-> 2, email |-> 2, active |-> NULL]>>)
        /\ Done(q) /\ req[q].fn = "getDataById" /\ req[q].id = 2
        /\ outcome[q] = Returned(<<>>)

RECURSIVE SumOf(_)
SumOf(s) == IF s = <<>> THEN 0 ELSE Head(s) + SumOf(Tail(s))

\* the hundredth nearest to a number of thousandths
Nearest(s) == CHOOSE m \in (s - 5)..(s + 5) : m % 10 = 0 /\ m - 5 <= s /\ s < m + 5

PriceOf(product_id) == (CHOOSE q \in InitialStore.products : q.id = product_id).price

\* C19: a createPurchase that returns has one line item per input line, each
\* with the price of its product as price_at_time, and a total that is the
\* sum of price_at_time times quantity over the input lines, rounded to two
\* decimals.
C19_TotalIsRoundedSum ==
    \A p \in Callers :
        Done(p) /\ req[p].fn = "createPurchase" /\ outcome[p].type = "return" =>
            LET input == req[p].purchaseData.products
                product(i) == Get(input[i], <<"product_id">>).n[1]
                quantity(i) == Get(input[i], <<"quantity">>).n[1]
                items == outcome[p].value[1].purchase_items
            IN  /\ Len(items) = Len(input)
                /\ \A i \in 1..Len(input) :
                       /\ product(i) \in Ids(InitialStore.products)
                       /\ items[i].item.id = product(i)
                       /\ items[i].quantity = quantity(i)
                       /\ items[i].price_at_time = PriceOf(product(i))
                /\ outcome[p].value[1].purchase.total =
                       Nearest(SumOf([i \in 1..Len(input) |->
                                         PriceOf(product(i)) * quantity(i)]))

\* a purchase listing product 2 twice: 1.256 + 2 * 1.256 = 3.768, total 3.77
C19_Witness ==
    \E p \in Callers :
        /\ Done(p) /\ req[p].fn = "createPurchase" /\ outcome[p].type = "return"
        /\ Len(req[p].purchaseData.products) = 2
        /\ outcome[p].value[1].purchase.total = 3770
        /\ Len(outcome[p].value[1].purchase_items) = 2

UnknownProduct(p) ==
    \E i \in 1..Len(req[p].purchaseData.products) :
        Get(req[p].purchaseData.products[i], <<"product_id">>).n[1]
            \notin Ids(InitialStore.products)

\* C20, with the ROLLBACK taken into account: a createPurchase naming a
\* product that was not fetched fails with an error that is no ClientError,
\* a ServerError when the ROLLBACK succeeded;
\* it issues no INSERT and it issues the ROLLBACK.
C20_UnknownProductUnguarded ==
    \A p \in Callers :
        /\ Done(p) /\ req[p].fn = "createPurchase"
        /\ UnknownProduct(p) /\ Succeeded(p, "SELECT")
        => /\ outcome[p].type = "throw"
           /\ err[p].name = "TypeError"
           /\ outcome[p].error.name # "ClientError"
           /\ ~Failed(p, "ROLLBACK") => outcome[p].error.name = "ServerError"
           /\ ~Issued(p, "INSERT")
           /\ Issued(p, "ROLLBACK")

\* C20 as stated: the caller of such a createPurchase always receives a
\* ServerError.
C20_AlwaysServerError ==
    \A p \in Callers :
        /\ Done(p) /\ req[p].fn = "createPurchase"
        /\ UnknownProduct(p) /\ Succeeded(p, "SELECT")
        => /\ outcome[p].type = "throw"
           /\ outcome[p].error.name = "ServerError"
           /\ ~Issued(p, "INSERT")
           /\ Issued(p, "ROLLBACK")

\* the purchase of product 3 failed after its SELECT, without any INSERT
C20_Witness ==
    \E p \in Callers :
        /\ Done(p) /\ req[p].fn = "createPurchase" /\ UnknownProduct(p)
        /\ Succeeded(p, "SELECT") /\ ~Issued(p, "INSERT") /\ Issued(p, "ROLLBACK")
        /\ outcome[p].type = "throw" /\ outcome[p].error.name = "ServerError"

(***************************************************************************)
(* Properties of errorHandler (checked under SpecBuild).                   *)
(***************************************************************************)
\* C25: the response to an error has the one field error, and a status that
\* follows the kind of the error: 400 for a ClientError, 404 for a
\* NotFoundError, 500 for a ServerError and 500 for an error without
\* statusCode.  The field is the message of the error; for a TypeError it is
\* the generic message and never the TypeError's own, and it is the generic
\* message when the error has the empty message.
C25_ResponseFollowsKind ==
    hout.fn = "errorHandler" =>
        LET e == hout.error
            generic == <<"Internal server error">>
        IN  /\ DOMAIN hout.body = {"error"}
            /\ e.name = "ClientError" => hout.status = 400
            /\ e.name = "NotFoundError" => hout.status = 404
            /\ e.name = "ServerError" => hout.status = 500
            /\ e.statusCode = 0 => hout.status = 500
            /\ e.name = "TypeError" => hout.body.error = generic
            /\ e.name # "TypeError" /\ e.message # <<>> => hout.body.error = e.message
            /\ e.message = <<>> => hout.body.error = generic

\* a TypeError with its own message was answered 500 with the generic message
C25_Witness ==
    /\ hout.fn = "errorHandler"
    /\ hout.error = PlainError("TypeError", ReadOfUndefined)
    /\ hout.status = 500
    /\ hout.body = [error |-> <<"Internal server error">>]

(***************************************************************************)
(* Properties of the bulk insert (checked under SpecBuild).                *)
(***************************************************************************)
\* a batch with a first record that has fields and a record whose fields
\* are not those of the first
Heterogeneous(dataArray) ==
    /\ Len(dataArray) > 1
    /\ dataArray[1] # <<>>
    /\ \E r \in 2..Len(dataArray) : Keys(dataArray[r]) # Keys(dataArray[1])

\* the value bound at position i of record r is not that record's value of
\* the i-th column of the statement
Misplaced(values, dataArray, r, i) ==
    LET keys == Keys(dataArray[1])
        at == (r - 1) * Len(keys) + i
        has == {j \in 1..Len(dataArray[r]) : dataArray[r][j].k = keys[i]}
    IN  \/ at > Len(values)
        \/ has # {} /\ \E j \in has : values[at] # dataArray[r][j].v
        \/ has = {} /\ values[at] # Undefined

Misaligned(sent, dataArray) ==
    \/ PlaceholdersIn(sent.sql) # Len(sent.values)
    \/ \E r \in 1..Len(dataArray) : \E i \in 1..Len(dataArray[1]) :
           Misplaced(sent.values, dataArray, r, i)

\* C27 as the specification states it: a batch whose records have
\* differing field sets is sent with columns and bound values misaligned.
C27_HeterogeneousMisaligned ==
    bout.fn = "rawInsertBulk" /\ Heterogeneous(bin.dataArray) =>
        bsent # <<>> /\ Misaligned(bsent[1], bin.dataArray)

\* C27: rawInsertBulk does not verify that the records share the first
\* record's field set: a batch whose records have differing field sets is
\* sent, with one placeholder and one bound value per record and column of
\* the first record, each value being the record's own value of that column
\* and undefined where the record has no such field; fields that the first
\* record does not have are dropped.
C27_HeterogeneousSentAligned ==
    bout.fn = "rawInsertBulk" /\ Heterogeneous(bin.dataArray) =>
        /\ ~bout.threw
        /\ bsent # <<>>
        /\ Len(bsent[1].values) = Len(bin.dataArray) * Len(bin.dataArray[1])
        /\ ~Misaligned(bsent[1], bin.dataArray)

\* a record with one field followed by a record with two other fields: the
\* second record binds undefined and its own values are dropped
C27_Witness ==
    /\ bout.fn = "rawInsertBulk"
    /\ Len(bin.dataArray) = 2
    /\ Len(bin.dataArray[1]) = 1 /\ Len(bin.dataArray[2]) = 2
    /\ bsent # <<>>
    /\ bsent[1].values = <<Num(2), Undefined>>

\* C26, the builders alone: an insert of a record without fields, a bulk
\* insert of an empty array or of a first record without fields and an
\* update with a patch without fields send nothing and throw a ClientError.
C26_BuildersRejectEmpty ==
    /\ bout.fn \in {"rawInsertData", "rawUpdateData"} /\ bin.data = <<>>
       /\ validateString(bin.tableName, InvalidTableName).ok
       => bout.threw /\ IsClientError(bout.error) /\ bsent = <<>>
    /\ bout.fn = "rawInsertBulk" /\ (bin.dataArray = <<>> \/ bin.dataArray[1] = <<>>)
       => bout.threw /\ IsClientError(bout.error) /\ bsent = <<>>

(***************************************************************************)
(* Properties of the calls, alone and together (checked under Spec).       *)
(***************************************************************************)
Statements(p) == [i \in 1..Len(log[p]) |-> log[p][i].statement]

\* the statements of each unit of work, in the order of its source
UnitOfWork(fn) ==
    CASE fn = "insertToTable" -> <<"INSERT", "SELECT">>
      [] fn = "getDataById" -> <<"SELECT">>
      [] fn = "updateData" -> <<"UPDATE", "SELECT">>
      [] fn = "toggleBooleanField" -> <<"UPDATE", "SELECT">>
      [] fn = "deleteRowById" -> <<"DELETE">>
      [] fn = "createPurchase" -> <<"SELECT", "INSERT", "INSERT", "SELECT", "JOIN">>
      [] fn = "getPurchase" -> <<"SELECT", "JOIN">>
      [] OTHER -> <<>>

IsPrefix(s, u) == Len(s) <= Len(u) /\ s = SubSeq(u, 1, Len(s))

\* C21: a single-row fetch of an id that does not exist returns null when
\* all its statements succeeded: getDataById returns null, and getPurchase
\* returns null and never issues the join; a getPurchase of an existing
\* purchase returns its header with, as purchase_items, the rows of the join
\* for exactly that purchase.
C21_MissingIsNull ==
    \A p \in Callers :
        LET allOk == \A i \in 1..Len(log[p]) : log[p][i].ok
            id == req[p].id
            its == {r \in InitialStore.purchase_items : r.purchase_id = id}
        IN  /\ Done(p) /\ req[p].fn = "getDataById" /\ allOk
               /\ id \notin Ids(InitialStore.users)
               => outcome[p] = Returned(<<>>)
            /\ req[p].fn = "getPurchase" /\ id \notin Ids(InitialStore.purchases)
               => /\ ~Issued(p, "JOIN")
                  /\ Done(p) /\ allOk => outcome[p] = Returned(<<>>)
            /\ Done(p) /\ req[p].fn = "getPurchase" /\ allOk
               /\ id \in Ids(InitialStore.purchases)
               => /\ outcome[p].type = "return"
                  /\ outcome[p].value # <<>>
                  /\ outcome[p].value[1].purchase \in InitialStore.purchases
                  /\ outcome[p].value[1].purchase.id = id
                  /\ LET items == outcome[p].value[1].purchase_items
                     IN  /\ Len(items) = Cardinality(its)
                         /\ {items[i].id : i \in 1..Len(items)} = {r.id : r \in its}

\* one getPurchase returned null for purchase 7, another returned purchase 1
\* with its one line item
C21_Witness ==
    \E p, q \in Callers :
        /\ Done(p) /\ req[p].fn = "getPurchase" /\ req[p].id = 7
        /\ outcome[p] = Returned(<<>>)
        /\ Statements(p) = <<"OPEN", "PRAGMA", "BEGIN", "SELECT", "ROLLBACK">>
        /\ Done(q) /\ req[q].fn = "getPurchase" /\ req[q].id = 1
        /\ outcome[q].type = "return" /\ outcome[q].value # <<>>
        /\ Len(outcome[q].value[1].purchase_items) = 1
        /\ outcome[q].value[1].purchase_items[1].id = 1

\* C22: the driver calls of one call are, in this order, the opening of the
\* connection, BEGIN, a beginning of the statements of its unit of work in
\* source order, and then nothing but ROLLBACK; a statement is issued only
\* after the one before it succeeded.
C22_StatementsInOrder ==
    \A p \in Callers :
        LET names == Statements(p)
            rollbacks == {i \in 1..Len(names) : names[i] = "ROLLBACK"}
            body == IF rollbacks = {} THEN names ELSE SubSeq(names, 1, Min(rollbacks) - 1)
        IN  /\ IsPrefix(body, <<"OPEN", "PRAGMA", "BEGIN">> \o UnitOfWork(req[p].fn))
            /\ \A i \in rollbacks : \A j \in i..Len(names) : names[j] = "ROLLBACK"
            /\ \A i \in 1..(Len(body) - 1) : log[p][i].ok

\* a purchase went through its five statements and was rolled back
C22_Witness ==
    \E p \in Callers :
        /\ Done(p)
        /\ Statements(p) = <<"OPEN", "PRAGMA", "BEGIN", "SELECT", "INSERT", "INSERT",
                             "SELECT", "JOIN", "ROLLBACK">>

\* C23: no two calls hold the same connection, and a read never returns what
\* another call wrote and did not commit: a getDataById returns the
\* committed row, and an insert is given the id that follows the committed
\* rows.
C23_NoDirtyRead ==
    \A p \in Callers :
        /\ \A q \in Callers : p # q /\ db[p] # 0 => db[p] # db[q]
        /\ db[p] # 0 => db[p] \in 1..Len(conns)
        /\ Done(p) /\ req[p].fn = "getDataById" /\ outcome[p].type = "return" =>
               outcome[p].value =
                   InIdOrder({r \in InitialStore.users : r.id = req[p].id})
        /\ Done(p) /\ req[p].fn = "insertToTable" /\ outcome[p].type = "return" =>
               outcome[p].value[1].id = Max(Ids(InitialStore.users)) + 1

\* one call has toggled user 1 and not rolled back yet, another has read
\* user 1 as committed
C23_Witness ==
    \E p, q \in Callers :
        /\ pc[p] = "rollback" /\ req[p].fn = "toggleBooleanField"
        /\ conns[db[p]].tx /\ conns[db[p]].work.users = {[id |-> 1, email |-> 1, active |-> 0]}
        /\ Done(q) /\ req[q].fn = "getDataById" /\ db[q] > db[p]
        /\ outcome[q] = Returned(<<[id |-> 1, email |-> 1, active |-> 1]>>)

\* C24: without any I/O failure, no call fails because of the engine's
\* lock, and an update of an existing row returns its row whatever the
\* other calls do.
C24_NoWriteContention ==
    \A p \in Callers :
        Done(p) /\ faults = 0 =>
            /\ err[p].raw # Busy
            /\ req[p].fn = "updateData" /\ req[p].id \in Ids(InitialStore.users) =>
                   outcome[p].type = "return"

\* C26: an insertToTable of a record without fields sends no INSERT, issues
\* the ROLLBACK and gives its caller the ClientError of rawInsertData.
C26_EmptyPayloadRejected ==
    \A p \in Callers :
        /\ Done(p) /\ req[p].fn = "insertToTable" /\ req[p].data = <<>>
        /\ Succeeded(p, "BEGIN")
        => /\ ~Issued(p, "INSERT")
           /\ Issued(p, "ROLLBACK")
           /\ outcome[p] = Thrown(ClientError(<<"No fields were passed to insert.">>, null))

\* the statements of the units of work
WorkStatements == {"SELECT", "INSERT", "UPDATE", "DELETE", "JOIN"}

\* C28: a unit of work runs only on a connection that was acquired and
\* whose BEGIN TRANSACTION succeeded: while it runs its connection is in a
\* transaction, and a call whose connection or BEGIN failed has issued none
\* of its statements.
C28_WorkOnlyInTransaction ==
    \A p \in Callers :
        /\ pc[p] = "work" => db[p] # 0 /\ conns[db[p]].tx /\ Succeeded(p, "BEGIN")
        /\ (\E i \in 1..Len(log[p]) : log[p][i].statement \in WorkStatements) =>
               Succeeded(p, "OPEN") /\ Succeeded(p, "PRAGMA") /\ Succeeded(p, "BEGIN")

\* a call whose BEGIN TRANSACTION failed has finished without any statement
C28_Witness ==
    \E p \in Callers :
        /\ Done(p) /\ Failed(p, "BEGIN")
        /\ \A i \in 1..Len(log[p]) : log[p][i].statement \notin WorkStatements
        /\ outcome[p].type = "throw"

\* C29: a call issues ROLLBACK at most once.
C29_RollbackAtMostOnce ==
    \A p \in Callers :
        Cardinality({i \in 1..Len(log[p]) : log[p][i].statement = "ROLLBACK"}) <= 1

\* C30: when no call is running, no connection is open.  conns holds the
\* connections that were opened; the wrapper and openDb never close one.
C30_ConnectionsReleased ==
    (\A p \in Callers : pc[p] \in {"idle", "done"}) => conns = <<>>

====
